---- MODULE Spec2Model ----
(***************************************************************************)
(* Model of the self-calibrating tuning of monoses and of its pipeline:    *)
(*   training/tuning/tune.py    the penalty calibrator and the tuning loop *)
(*   training/tuning/decode.py  the n-best generator with its cache        *)
(*   train.py                   the steps of the pipeline                  *)
(*                                                                         *)
(* The specifications of the module:                                       *)
(*   Spec           main() of tune.py from line 150 with the calibration   *)
(*                  result drawn from a set, run again on the same outputs *)
(*   SpecCal        the penalty calibration of main(), lines 173-218       *)
(*   SpecDecode     the invocations of decode.py inside the sub-iterations *)
(*   SpecInduce     the phrase table induction                             *)
(*   SpecMerge      the merge of the two n-best lists, decode.py 96-130    *)
(*   SpecSupervised a supervised run of tune.py with its decode.py runs    *)
(*   SpecAnyFinal   one run of tune.py on any final file of Z-MERT         *)
(*   SpecTrain      main() of train.py, lines 690-715                      *)
(***************************************************************************)
EXTENDS Integers, Sequences, FiniteSets, TLC

VARIABLES
    \* ---- tune.py main(): the tuning loop
    args,        \* parsed command line: supervised, length_init, iterations, input
    itfile,      \* itfile[d][k]: contents of args.output[d] + '.it' + str(k)
    final,       \* final[d]: contents of args.output[d]
    pc,          \* position of main()
    fwdind,      \* bwdind is 1 - fwdind
    iterations,
    early_stop,
    it,          \* value of the loop variable of `for it in range(iterations)`
    dirpos,      \* elements of the inner tuple already taken by the inner for
    is_first, ind, rind,
    zfinal,      \* tmp/dcfg.txt.ZMERT.final of the current sub-iteration
    input_txt,   \* tmp/input.txt: <<"dev", d>> is args.dev[d], <<"bt", d>> its back-translation
    reference_txt, \* tmp/reference.txt: the dev corpora it is the concatenation of
    cmd_src,     \* the --src argument of decode.py in tmp/cmd.sh
    ratios,      \* the word-count ratios of lines 156-162
    \* ---- history of the tuner runs (not program state)
    run,         \* runs of tune.py started on these output paths
    extFail,     \* an external call of the current run failed
    clobbered,   \* a write hit an iteration-numbered path that already held a file
    nOpt,        \* optimizer invocations of the current run
    crashWhy,    \* the exception that ended the current run
    lastCmp,     \* the last comparison of the current run: where, and its result
    latest,      \* latest[d]: the last iteration file of d the current run wrote
    prev,        \* how the previous run on these paths ended
    backTranslated, \* BuildReference ran the reverse decoder in the current run
    calOut,      \* the forward and the backward penalty the calibration of the run ended with
    \* ---- decode.py under ZMERT, inside the sub-iterations of one tuner run
    src,         \* args.src of decode.py: "none" (supervised) or the dev corpus
    cacheFile,   \* the lines (src, trg) of tmp/cache.txt
    subits,      \* sub-iterations the tuner has started
    invocations, \* runs of decode.py in the current sub-iteration
    outcome,     \* how the last run of decode.py ended
    \* ---- history of the reverse decoder (not program state)
    sentRun,     \* sentRun[s]: times the reverse decoder translated s in the run
    sentSub,     \* the same within the current sub-iteration
    lookRun,     \* lookRun[s]: the translations the lookups of s returned in the run
    lookSub,     \* the same within the current sub-iteration
    nLookSub,    \* nLookSub[s]: lookups of s in the current sub-iteration
    missing,     \* sentences the reverse decoder returned no line for in the last run of decode.py
    \* ---- tune.py main(): the penalty calibrator
    cpc,         \* position of the calibrator
    resp,        \* the length-ratio response of the reverse decoder
    fwdpenalty, bwdpenalty,
    pmin, pmax, pinitial, delta,
    stats,       \* what multi_bleu returned last: bleu and ratio
    best_bleu, best_penalties,
    \* ---- history of the calibration (not program state)
    outerSteps,  \* passes of the outer while begun
    innerEvals,  \* evaluations of the inner while in the current outer pass
    bracketEvals,\* those of them made with both pmin and pmax set
    w0,          \* pmax - pmin when the bracket got its second bound
    endedBy,     \* the break that ended the last inner while: "tol" or "width"
    bestBy,      \* endedBy of the outer pass that set best_penalties
    anyTol,      \* some evaluated pair was within the ratio tolerance
    minDev,      \* the smallest |1 - ratio| any evaluation returned
    maxBleu,     \* the highest pseudo-BLEU any outer pass ended with
    maxAt,       \* the pair of the last outer pass that ended with it
    evalAt,      \* the backward penalty the reverse decoder was last run with
    \* ---- induce-phrase-table.py
    ipc,         \* position of main()
    srcEmb, trgEmb,        \* the embedding files args.src and args.trg
    src_words, trg_words,
    sim,         \* sim[k][l]: dot product of source phrase k and target phrase l
    expInvT,     \* exp(1 / t), t the temperature
    min_prob, size,
    outArgs,     \* whether args.src2trg and args.trg2src are given
    table,       \* the lines written to the two phrase tables
    iwhy,        \* the exception that ended main()
    \* ---- decode.py: the merged n-best stream (lines 96-130)
    mpc,         \* position of the merge
    bt2ref_n,    \* sentences of args.bt2ref[0], the decoder input of the first list
    src_n,       \* sentences of args.src, or None when --src is not given
    bt2sys,      \* the sentence index of every line of tmp/bt2sys.txt
    src2sys,     \* the same of tmp/src2sys.txt
    offset,
    fout,        \* the lines written to args.output
    \* ---- train.py main()
    tpc,         \* position of main()
    step,        \* the step whose test is next
    from_step, to_step,
    stepdir,     \* stepdir[k]: args.working/step<k> is absent ("none"), was there
                 \* before the run ("old") or was made by the run ("new")
    ran,         \* the steps whose function was entered past its os.mkdir, in order
    twhy         \* the exception that ended main()

\* the files of the temporary directory of a sub-iteration, and whether one
\* of them came out of the reverse decoder
tmpVars == <<input_txt, reference_txt, cmd_src, backTranslated>>

\* what the calibration of lines 155-218 left
lenVars == <<ratios, calOut>>

tuneVars == <<args, itfile, final, pc, fwdind, iterations, early_stop, it, dirpos,
              is_first, ind, rind, zfinal, run, extFail, clobbered, nOpt,
              crashWhy, lastCmp, latest, prev, tmpVars, lenVars>>

decVars == <<src, cacheFile, subits, invocations, outcome, sentRun, sentSub,
             lookRun, lookSub, nLookSub, missing>>

\* the tuner variables the calibrator leaves alone
tuneRest == <<args, itfile, final, pc, iterations, early_stop, it, dirpos,
              is_first, ind, rind, zfinal, run, extFail, clobbered, nOpt,
              crashWhy, lastCmp, latest, prev, tmpVars, lenVars>>

calHist == <<outerSteps, innerEvals, bracketEvals, w0, endedBy, bestBy, anyTol,
             minDev, maxBleu, maxAt, evalAt>>

calVars == <<cpc, resp, fwdpenalty, bwdpenalty, pmin, pmax, pinitial, delta,
             stats, best_bleu, best_penalties, calHist>>

indVars == <<ipc, srcEmb, trgEmb, src_words, trg_words, sim, expInvT, min_prob,
             size, outArgs, table, iwhy>>

mrgVars == <<mpc, bt2ref_n, src_n, bt2sys, src2sys, offset, fout>>

\* the variables of the programs modelled apart from the tuner, the n-best
\* generator, the calibrator and the phrase-table induction
trainVars == <<tpc, step, from_step, to_step, stepdir, ran, twhy>>

auxVars == <<mrgVars, trainVars>>

vars == <<tuneVars, decVars, calVars, indVars, auxVars>>

----------------------------------------------------------------------------
(* Bounds of the model *)

MaxIterations == 2
MaxRuns == 2
MaxSubIterations == 2
MaxInvocations == 2
MaxNBest == 2
MaxInner == 14
MaxSize == 3
MaxSentences == 2

----------------------------------------------------------------------------
(* Files.  A path holds no file or a sequence of lines; a line is its
   whitespace-separated tokens, whether it has leading or trailing whitespace (pad), and whether
   some inner separator is not a single space (gap).  Two files have the
   same bytes iff they are equal as values. *)

\* Python's None; a value v that may be None is the sequence <<v>>
None == <<>>

NoFile == [exists |-> FALSE, lines |-> <<>>]

File(lines) == [exists |-> TRUE, lines |-> lines]

Tok(w) == [w |-> w, n |-> 0]

Line(toks) == [toks |-> toks, pad |-> FALSE, gap |-> FALSE]

\* str.strip()
Strip(line) == [line EXCEPT !.pad = FALSE]

\* cols[0][:-1] and name + '=' on the feature names of the model
DropLast(tok) ==
    CASE tok.w = "TM0=" -> "TM0"
      [] tok.w = "WordPenalty0=" -> "WordPenalty0"
      [] OTHER -> tok.w

WithEq(name) ==
    CASE name = "TM0" -> Tok("TM0=")
      [] name = "WordPenalty0" -> Tok("WordPenalty0=")
      [] OTHER -> Tok(name)

IsWeightHeader(line) == Strip(line).toks = <<Tok("[weight]")>>

\* the value of `start` when line i of f is processed
Started(ls, i) == \E j \in 1..(i - 1) : IsWeightHeader(ls[j])

\* extract_moses_params: name -> list of values, a later line of a name wins
ExtractMosesParams(file) ==
    LET f == file.lines
        isParam(i) == /\ ~IsWeightHeader(f[i])
                      /\ Started(f, i)
                      /\ f[i].toks # <<>>
        names == {DropLast(f[i].toks[1]) : i \in {k \in 1..Len(f) : isParam(k)}}
        last(nm) == CHOOSE i \in 1..Len(f) :
                        /\ isParam(i) /\ DropLast(f[i].toks[1]) = nm
                        /\ \A j \in (i + 1)..Len(f) :
                              ~(isParam(j) /\ DropLast(f[j].toks[1]) = nm)
    IN  [nm \in names |-> Tail(f[last(nm)].toks)]

\* params[name] of a collections.defaultdict(list)
ParamsGet(params, name) == IF name \in DOMAIN params THEN params[name] ELSE <<>>

\* replace_moses_params: the lines written to the output file
ReplaceMosesParams(file, params) ==
    LET f == file.lines
    IN  File([i \in 1..Len(f) |->
            IF Started(f, i) /\ f[i].toks # <<>>
            THEN LET vals == ParamsGet(params, DropLast(f[i].toks[1]))
                 IN  [toks |-> <<WithEq(DropLast(f[i].toks[1]))>> \o vals,
                      pad |-> (vals = <<>>), gap |-> FALSE]
            ELSE Strip(f[i])])

\* open(output, mode='x') succeeds only on a path that holds no file
OpenExclusive(f) == ~f.exists

\* filecmp.cmp(a, b, shallow=False)
FileCmpWeights(a, b) == ExtractMosesParams(a) = ExtractMosesParams(b)

FileCmp(a, b) == a = b

\* extract_zmert_params: z.w maps name -> (index -> value); the values of a
\* name are taken from index 0 up to the first missing index
RECURSIVE TakeFrom(_, _)
TakeFrom(ind2w, i) ==
    IF i \in DOMAIN ind2w THEN <<ind2w[i]>> \o TakeFrom(ind2w, i + 1) ELSE <<>>

ExtractZmertParams(z) == [nm \in DOMAIN z.w |-> TakeFrom(z.w[nm], 0)]

NoZmertFinal == [exists |-> FALSE, w |-> <<>>]

----------------------------------------------------------------------------
(* Inputs of the model *)

W1 == Tok("0.1")
W2 == Tok("0.2")

CfgCanon == File(
    << Line(<<Tok("[feature]")>>),
       Line(<<Tok("[weight]")>>),
       Line(<<Tok("TM0="), W1, W2>>),
       Line(<<Tok("WordPenalty0="), W1>>) >>)

\* the same weights with two spaces after `TM0=`
CfgGap == File(
    << Line(<<Tok("[feature]")>>),
       Line(<<Tok("[weight]")>>),
       [toks |-> <<Tok("TM0="), W1, W2>>, pad |-> FALSE, gap |-> TRUE],
       Line(<<Tok("WordPenalty0="), W1>>) >>)

InputPairs == { <<CfgCanon, CfgCanon>>, <<CfgGap, CfgCanon>> }

\* the files ZMERT may leave as dcfg.txt.ZMERT.final, given the parameters
\* of params.txt it was started from: one line name___index per value, the
\* first value of TM0 optimized to any of the values of the model
ZmertFinals(params) ==
    { [exists |-> TRUE,
       w |-> [nm \in DOMAIN params |->
                 [i \in 0..(Len(params[nm]) - 1) |->
                     IF nm = "TM0" /\ i = 0 THEN a ELSE params[nm][i + 1]]]] :
          a \in {W1, W2} }

\* a final file without the lines of feature nm
WithoutFeature(z, nm) ==
    [z EXCEPT !.w = [n \in DOMAIN z.w \ {nm} |-> z.w[n]]]

\* a final file without the line nm___i
WithoutIndex(z, nm, i) ==
    [z EXCEPT !.w = [n \in DOMAIN z.w |->
                        IF n = nm THEN [k \in DOMAIN z.w[n] \ {i} |-> z.w[n][k]]
                        ELSE z.w[n]]]

\* the final files of a ZMERT that may also leave out the word penalty or
\* the line of the first value of TM0
ZmertFinalsAny(params) ==
    ZmertFinals(params) \cup
    {WithoutFeature(z, "WordPenalty0") : z \in ZmertFinals(params)} \cup
    {WithoutIndex(z, "TM0", 0) : z \in ZmertFinals(params)}

\* best_penalties of the calibration, in units of 1/3200
PenVals == {-3200, 0}

\* word_count(dev) / word_count(output) of lines 159-164, per direction
LenRatios == {1, 2}

\* '{:.4f}'.format(p): p / 3200 rounded to a multiple of 0.0001
Fmt4(p) == [w |-> "{:.4f}", n |-> (p * 25) \div 8]

----------------------------------------------------------------------------
(* tune.py main(), lines 150-329 *)

bwdind == 1 - fwdind

Dirs == {0, 1}

EmptyOut == [d \in Dirs |-> [k \in 0..(MaxIterations + 1) |-> NoFile]]

NoCmp == [it |-> -1, ind |-> 0, is_first |-> FALSE, same |-> FALSE]

Args == [supervised : BOOLEAN, length_init : BOOLEAN,
         iterations : 0..MaxIterations, input : InputPairs]

InitTune ==
    /\ args \in Args
    /\ itfile = EmptyOut
    /\ final = [d \in Dirs |-> NoFile]
    /\ pc = "start"
    /\ fwdind = 0
    /\ iterations = 0
    /\ early_stop = FALSE
    /\ it = -1
    /\ dirpos = 0
    /\ is_first = TRUE /\ ind = 0 /\ rind = 1
    /\ zfinal = NoZmertFinal
    /\ run = 1
    /\ extFail = FALSE
    /\ clobbered = FALSE
    /\ nOpt = 0
    /\ crashWhy = "none"
    /\ lastCmp = NoCmp
    /\ latest = [d \in Dirs |-> -1]
    /\ prev = [ended |-> "none", it |-> -1]
    /\ input_txt = None /\ reference_txt = None /\ cmd_src = None
    /\ backTranslated = FALSE
    /\ ratios = <<None, None>>
    /\ calOut = None

Crash(why) ==
    /\ pc' = "crashed"
    /\ crashWhy' = why

\* lines 150-153: the iteration-0 files are copies of the inputs
StartCopy ==
    /\ pc = "start"
    /\ args.supervised \/ ~args.length_init
    /\ fwdind' = 0
    /\ itfile' = [d \in Dirs |-> [itfile[d] EXCEPT ![0] = args.input[d + 1]]]
    /\ clobbered' = (clobbered \/ \E d \in Dirs : itfile[d][0].exists)
    /\ latest' = [d \in Dirs |-> 0]
    /\ pc' = "entropies"
    /\ UNCHANGED <<tmpVars, lenVars, args, final, iterations, early_stop, it, dirpos, is_first, ind,
                   rind, zfinal, run, extFail, nOpt, crashWhy, lastCmp, prev>>
    /\ UNCHANGED <<decVars, calVars, indVars, auxVars>>

\* the word penalty of input i replaced by best_penalties[i] (lines 221-223)
WithPenaltyAll(f, p) ==
    ReplaceMosesParams(f, [nm \in DOMAIN ExtractMosesParams(f) \cup {"WordPenalty0"} |->
                              <<Fmt4(p)>>])

WithPenalty(f, p) ==
    ReplaceMosesParams(f, [nm \in DOMAIN ExtractMosesParams(f) \cup {"WordPenalty0"} |->
                              IF nm = "WordPenalty0" THEN <<Fmt4(p)>>
                              ELSE ExtractMosesParams(f)[nm]])

\* line 165
TrgIsShortestGe(r0, r1) == r0 >= r1

TrgIsShortest(r0, r1) == r0 > r1

\* lines 166-170
ForwardIndex(r0, r1) == IF TrgIsShortest(r0, r1) THEN 1 ELSE 0

\* lines 211-213: best_penalties of a best pair (fp, bp)
BestPenalties(f, fp, bp) == [d \in Dirs |-> IF d = f THEN fp ELSE bp]

\* lines 155-223: the direction and the penalties found by the calibration
\* (SpecCal), then the iteration-0 files written with mode 'x'
StartLengthInit ==
    /\ pc = "start"
    /\ ~args.supervised /\ args.length_init
    /\ \E r0 \in LenRatios, r1 \in LenRatios, fp \in PenVals, bp \in PenVals :
          LET f == ForwardIndex(r0, r1)
              best == BestPenalties(f, fp, bp)
          IN
          /\ fwdind' = f
          /\ ratios' = <<r0, r1>>
          /\ calOut' = <<fp, bp>>
          /\ IF ~OpenExclusive(itfile[0][0])
             THEN /\ Crash("FileExistsError")
                  /\ UNCHANGED <<itfile, latest>>
             ELSE IF ~OpenExclusive(itfile[1][0])
             THEN /\ Crash("FileExistsError")
                  /\ itfile' = [itfile EXCEPT
                        ![0][0] = WithPenalty(args.input[1], best[0])]
                  /\ latest' = [latest EXCEPT ![0] = 0]
             ELSE /\ pc' = "entropies"
                  /\ crashWhy' = crashWhy
                  /\ itfile' = [d \in Dirs |-> [itfile[d] EXCEPT
                        ![0] = WithPenalty(args.input[d + 1], best[d])]]
                  /\ latest' = [d \in Dirs |-> 0]
    /\ UNCHANGED <<tmpVars, args, final, iterations, early_stop, it, dirpos, is_first, ind,
                   rind, zfinal, run, extFail, clobbered, nOpt, lastCmp, prev>>
    /\ UNCHANGED <<decVars, calVars, indVars, auxVars>>

\* line 237
IterationsAsGiven(a) == a.iterations

Iterations(a) == IF a.supervised THEN 1 ELSE a.iterations

\* lines 225-237: the LM entropies of the dev corpora; a query tool that
\* prints nothing makes output.splitlines()[0] raise
Entropies ==
    /\ pc = "entropies"
    /\ \E ok \in BOOLEAN :
          IF ok
          THEN /\ pc' = "for_it"
               /\ iterations' = Iterations(args)
               /\ early_stop' = FALSE
               /\ UNCHANGED <<extFail, crashWhy>>
          ELSE /\ Crash("IndexError")
               /\ extFail' = TRUE
               /\ UNCHANGED <<iterations, early_stop>>
    /\ UNCHANGED <<tmpVars, lenVars, args, itfile, final, fwdind, it, dirpos, is_first, ind, rind,
                   zfinal, run, clobbered, nOpt, lastCmp, latest, prev>>
    /\ UNCHANGED <<decVars, calVars, indVars, auxVars>>

\* lines 238-240: the outer for takes the next iteration, and breaks at once
\* when early_stop is set
ForIt ==
    /\ pc = "for_it"
    /\ IF it + 1 < iterations
       THEN /\ it' = it + 1
            /\ dirpos' = 0
            /\ pc' = (IF early_stop THEN "finish" ELSE "for_dir")
       ELSE /\ pc' = "finish"
            /\ UNCHANGED <<it, dirpos>>
    /\ UNCHANGED <<tmpVars, lenVars, args, itfile, final, fwdind, iterations, early_stop, is_first,
                   ind, rind, zfinal, run, extFail, clobbered, nOpt, crashWhy,
                   lastCmp, latest, prev>>
    /\ UNCHANGED <<decVars, calVars, indVars, auxVars>>

\* lines 241-243: the inner for takes (True, fwdind, bwdind), then
\* (False, bwdind, fwdind)
ForDir ==
    /\ pc = "for_dir"
    /\ IF dirpos < 2
       THEN /\ dirpos' = dirpos + 1
            /\ is_first' = (dirpos = 0)
            /\ ind' = (IF dirpos = 0 THEN fwdind ELSE bwdind)
            /\ rind' = (IF dirpos = 0 THEN bwdind ELSE fwdind)
            /\ pc' = (IF early_stop THEN "for_it" ELSE "build_reference")
       ELSE /\ pc' = "for_it"
            /\ UNCHANGED <<dirpos, is_first, ind, rind>>
    /\ UNCHANGED <<tmpVars, lenVars, args, itfile, final, fwdind, iterations, early_stop, it,
                   zfinal, run, extFail, clobbered, nOpt, crashWhy, lastCmp,
                   latest, prev>>
    /\ UNCHANGED <<decVars, calVars, indVars, auxVars>>

\* line 248: the iteration of the fixed reverse configuration
Trg2SrcItSame(i, first) == i

Trg2SrcIt(i, first) == i + (IF first THEN 0 ELSE 1)

src2trg_config == itfile[ind][it]

trg2src_config == itfile[rind][Trg2SrcIt(it, is_first)]

\* line 282: the --src argument of decode.py
SrcArgAlways(a, d) == <<d>>

SrcArg(a, d) == IF a.supervised THEN None ELSE <<d>>

\* lines 250-315: the reference and the files ZMERT reads.  The exit code of
\* the back-translating decoder is dropped by bash(); its output file exists
\* whatever it did, the shell having created it
BuildReferenceTune ==
    /\ pc = "build_reference"
    /\ \E decoder_ok \in BOOLEAN :
          extFail' = (extFail \/ (~args.supervised /\ ~decoder_ok))
    /\ input_txt' = (IF args.supervised THEN <<"dev", ind>> ELSE <<"bt", rind>>)
    /\ reference_txt' = (IF args.supervised THEN <<rind>> ELSE <<rind, ind>>)
    /\ cmd_src' = SrcArg(args, ind)
    /\ backTranslated' = (backTranslated \/ ~args.supervised)
    /\ zfinal' = NoZmertFinal
    /\ pc' = "optimize"
    /\ UNCHANGED <<lenVars, args, itfile, final, fwdind, iterations, early_stop, it, dirpos,
                   is_first, ind, rind, run, clobbered, nOpt, crashWhy, lastCmp,
                   latest, prev>>

BuildReference ==
    /\ BuildReferenceTune
    /\ UNCHANGED <<decVars, calVars, indVars, auxVars>>

\* line 316: ZMERT; its exit code is dropped, and it may leave no final file
Optimize ==
    /\ pc = "optimize"
    /\ \/ /\ zfinal' \in ZmertFinals(ExtractMosesParams(src2trg_config))
          /\ UNCHANGED extFail
       \/ /\ zfinal' = NoZmertFinal
          /\ extFail' = TRUE
    /\ nOpt' = nOpt + 1
    /\ pc' = "replace"
    /\ UNCHANGED <<tmpVars, lenVars, args, itfile, final, fwdind, iterations, early_stop, it, dirpos,
                   is_first, ind, rind, run, clobbered, crashWhy, lastCmp,
                   latest, prev>>
    /\ UNCHANGED <<decVars, calVars, indVars, auxVars>>

\* line 316 with a ZMERT whose final file may lack lines
OptimizeAny ==
    /\ pc = "optimize"
    /\ zfinal' \in ZmertFinalsAny(ExtractMosesParams(src2trg_config))
    /\ nOpt' = nOpt + 1
    /\ pc' = "replace"
    /\ UNCHANGED <<tmpVars, lenVars, args, itfile, final, fwdind, iterations, early_stop,
                   it, dirpos, is_first, ind, rind, run, extFail, clobbered, crashWhy,
                   lastCmp, latest, prev>>
    /\ UNCHANGED <<decVars, calVars, indVars, auxVars>>

\* lines 318-320: the arguments are evaluated first, so a missing final file
\* raises before the output is opened
Replace ==
    /\ pc = "replace"
    /\ IF ~zfinal.exists
       THEN /\ Crash("FileNotFoundError")
            /\ UNCHANGED <<itfile, clobbered, latest>>
       ELSE IF ~OpenExclusive(itfile[ind][it + 1])
       THEN /\ Crash("FileExistsError")
            /\ UNCHANGED <<itfile, clobbered, latest>>
       ELSE /\ itfile' = [itfile EXCEPT ![ind][it + 1] =
                   ReplaceMosesParams(itfile[ind][it], ExtractZmertParams(zfinal))]
            /\ clobbered' = (clobbered \/ itfile[ind][it + 1].exists)
            /\ latest' = [latest EXCEPT ![ind] = it + 1]
            /\ pc' = "compare"
            /\ UNCHANGED crashWhy
    /\ UNCHANGED <<tmpVars, lenVars, args, final, fwdind, iterations, early_stop, it, dirpos,
                   is_first, ind, rind, zfinal, run, extFail, nOpt, lastCmp, prev>>
    /\ UNCHANGED <<decVars, calVars, indVars, auxVars>>

\* lines 322-325
Compare ==
    /\ pc = "compare"
    /\ IF FileCmp(itfile[ind][it], itfile[ind][it + 1])
       THEN /\ final' = [d \in Dirs |->
                   IF d = ind THEN src2trg_config ELSE trg2src_config]
            /\ early_stop' = TRUE
       ELSE UNCHANGED <<final, early_stop>>
    /\ lastCmp' = [it |-> it, ind |-> ind, is_first |-> is_first,
                   same |-> FileCmp(itfile[ind][it], itfile[ind][it + 1])]
    /\ pc' = "for_dir"
    /\ UNCHANGED <<tmpVars, lenVars, args, itfile, fwdind, iterations, it, dirpos, is_first, ind,
                   rind, zfinal, run, extFail, clobbered, nOpt, crashWhy, latest,
                   prev>>
    /\ UNCHANGED <<decVars, calVars, indVars, auxVars>>

\* lines 327-329
Finish ==
    /\ pc = "finish"
    /\ IF early_stop
       THEN /\ pc' = "done"
            /\ UNCHANGED <<final, crashWhy>>
       ELSE IF \E d \in Dirs : ~itfile[d][iterations].exists
       THEN /\ Crash("FileNotFoundError")
            /\ UNCHANGED final
       ELSE /\ final' = [d \in Dirs |-> itfile[d][iterations]]
            /\ pc' = "done"
            /\ UNCHANGED crashWhy
    /\ UNCHANGED <<tmpVars, lenVars, args, itfile, fwdind, iterations, early_stop, it, dirpos,
                   is_first, ind, rind, zfinal, run, extFail, clobbered, nOpt,
                   lastCmp, latest, prev>>
    /\ UNCHANGED <<decVars, calVars, indVars, auxVars>>

\* tune.py started again with the same command line and the same output paths
Rerun ==
    /\ pc \in {"done", "crashed"}
    /\ run < MaxRuns
    /\ run' = run + 1
    /\ prev' = [ended |-> pc, it |-> it]
    /\ pc' = "start"
    /\ fwdind' = 0
    /\ iterations' = 0
    /\ early_stop' = FALSE
    /\ it' = -1
    /\ dirpos' = 0
    /\ is_first' = TRUE /\ ind' = 0 /\ rind' = 1
    /\ zfinal' = NoZmertFinal
    /\ extFail' = FALSE
    /\ nOpt' = 0
    /\ crashWhy' = "none"
    /\ lastCmp' = NoCmp
    /\ latest' = [d \in Dirs |-> -1]
    /\ input_txt' = None /\ reference_txt' = None /\ cmd_src' = None
    /\ backTranslated' = FALSE
    /\ ratios' = <<None, None>>
    /\ calOut' = None
    /\ UNCHANGED <<args, itfile, final, clobbered>>
    /\ UNCHANGED <<decVars, calVars, indVars, auxVars>>

TunerStep ==
    \/ StartCopy
    \/ StartLengthInit
    \/ Entropies
    \/ ForIt
    \/ ForDir
    \/ BuildReference
    \/ Optimize
    \/ Replace
    \/ Compare
    \/ Finish

----------------------------------------------------------------------------
(* decode.py main(), started by ZMERT through cmd.sh (tune.py 278-294) some
   number of times in every sub-iteration of the tuning loop *)

\* candidate translations of the n-best list, and translations the reverse
\* decoder returns for them, which may be an empty line
Cands == {"a", "b"}

Trans == {"x", "y", ""}

\* the candidates of tmp/src2sys.txt, in the order of the file
NBestLists == UNION {[1..n -> Cands] : n \in 0..MaxNBest}

Range(f) == {f[i] : i \in DOMAIN f}

\* line 53: line.strip().split('\t') of a line src + '\t' + trg unpacks into
\* two values only if neither side is empty, strip() taking the tab with it
Unpacks(l) == l.src # "" /\ l.trg # ""

\* lines 50-54
CacheLoads(file) == \A i \in 1..Len(file) : Unpacks(file[i])

LoadCache(file) ==
    [s \in {file[i].src : i \in 1..Len(file)} |->
        file[CHOOSE i \in 1..Len(file) :
                /\ file[i].src = s
                /\ \A j \in (i + 1)..Len(file) : file[j].src # s].trg]

\* lines 74-79: the translations of src2sys.txt that are not in the cache
UncachedAll(nbest, cache) == Range(nbest)

Uncached(nbest, cache) == {c \in Range(nbest) : c \notin DOMAIN cache}

\* the orders in which a set may be written to tmp/input.txt (line 81)
Orders(S) == {o \in [1..Cardinality(S) -> S] : Range(o) = S}

\* lines 101-130 for src2sys.txt: the candidates whose line is written, i.e.
\* those before the first candidate cache[candidate] raises KeyError for
RECURSIVE Written(_, _)
Written(nbest, cache) ==
    IF nbest = <<>> \/ nbest[1] \notin DOMAIN cache THEN <<>>
    ELSE <<nbest[1]>> \o Written(Tail(nbest), cache)

\* line 93: the cache with the translations tr of the sentences got
UpdatedNot(cache0, got, tr) == cache0

Updated(cache0, got, tr) ==
    [s \in DOMAIN cache0 \cup got |-> IF s \in got THEN tr[s] ELSE cache0[s]]

NoCounts == [s \in Cands |-> 0]

NoLooks == [s \in Cands |-> {}]

InitDecode ==
    /\ src \in {"none", "dev"}
    /\ cacheFile = <<>>
    /\ subits = 0
    /\ invocations = 0
    /\ outcome = "none"
    /\ sentRun = NoCounts /\ sentSub = NoCounts
    /\ lookRun = NoLooks /\ lookSub = NoLooks
    /\ nLookSub = NoCounts
    /\ missing = 0

\* the decode variables of a specification that does not run decode.py
IdleDecode == InitDecode /\ src = "none"

\* tune.py 250-251: every sub-iteration creates its own temporary directory
\* and, in it, an empty cache.txt
CacheOfSubIteration(file) == <<>>

TmpCache ==
    /\ subits < MaxSubIterations
    /\ subits' = subits + 1
    /\ cacheFile' = CacheOfSubIteration(cacheFile)
    /\ invocations' = 0
    /\ outcome' = "none"
    /\ sentSub' = NoCounts
    /\ lookSub' = NoLooks
    /\ nLookSub' = NoCounts
    /\ missing' = 0
    /\ UNCHANGED <<sentRun, lookRun>>

NewSubIteration ==
    /\ TmpCache
    /\ UNCHANGED src
    /\ UNCHANGED <<tuneVars, calVars, indVars, auxVars>>

\* tune.py 250-315 with the files of the temporary directory that decode.py
\* works on: cache.txt, and the --src argument of cmd.sh
SubIterationStart ==
    /\ BuildReferenceTune
    /\ TmpCache
    /\ src' = (IF cmd_src' = None THEN "none" ELSE "dev")
    /\ UNCHANGED <<calVars, indVars, auxVars>>

\* one run of decode.py, lines 50-130
DecodeInvokeRun ==
    /\ subits >= 1
    /\ invocations < MaxInvocations
    /\ invocations' = invocations + 1
    /\ IF ~CacheLoads(cacheFile)
       THEN /\ outcome' = "ValueError"
            /\ missing' = 0
            /\ UNCHANGED <<cacheFile, sentRun, sentSub, lookRun, lookSub, nLookSub>>
       ELSE IF src = "none"
       THEN /\ outcome' = "ok"
            /\ missing' = 0
            /\ UNCHANGED <<cacheFile, sentRun, sentSub, lookRun, lookSub, nLookSub>>
       ELSE \E nbest \in NBestLists :
            LET cache0 == LoadCache(cacheFile)
                sentences == Uncached(nbest, cache0)
            IN  \* lines 83-94: the reverse decoder returns a line for each
                \* sentence of input.txt, or for the first ones only
                \E order \in Orders(sentences), n \in 0..Cardinality(sentences),
                   tr \in [sentences -> Trans] :
                LET lines == [i \in 1..n |-> [src |-> order[i], trg |-> tr[order[i]]]]
                    got == {order[i] : i \in 1..n}
                    cache == Updated(cache0, got, tr)
                    wr == Written(nbest, cache)
                    written == Range(wr)
                IN  /\ cacheFile' = cacheFile \o lines
                    /\ missing' = Cardinality(sentences) - n
                    /\ sentRun' = [s \in Cands |->
                                      sentRun[s] + (IF s \in got THEN 1 ELSE 0)]
                    /\ sentSub' = [s \in Cands |->
                                      sentSub[s] + (IF s \in got THEN 1 ELSE 0)]
                    /\ lookRun' = [s \in Cands |->
                                      lookRun[s] \cup
                                      (IF s \in written THEN {cache[s]} ELSE {})]
                    /\ lookSub' = [s \in Cands |->
                                      lookSub[s] \cup
                                      (IF s \in written THEN {cache[s]} ELSE {})]
                    /\ nLookSub' = [s \in Cands |->
                          nLookSub[s] + Cardinality({i \in DOMAIN wr : wr[i] = s})]
                    /\ outcome' = (IF Range(nbest) \subseteq DOMAIN cache
                                   THEN "ok" ELSE "KeyError")
    /\ UNCHANGED <<src, subits>>

DecodeInvoke ==
    /\ DecodeInvokeRun
    /\ UNCHANGED <<tuneVars, calVars, indVars, auxVars>>

\* tune.py 316: ZMERT runs tmp/cmd.sh, that is decode.py
ZmertDecodes ==
    /\ pc = "optimize"
    /\ DecodeInvokeRun
    /\ UNCHANGED <<tuneVars, calVars, indVars, auxVars>>

----------------------------------------------------------------------------
(* decode.py main(), lines 96-130: the two n-best lists merged into
   args.output.  Of a line of an n-best list only its first column, the
   index of the sentence it is a candidate for, is kept; the lookup of line
   126 is taken to succeed.  The decoder lists the sentences in the order of
   its input with at most MaxNBest candidates each, and possibly none for a
   sentence it did not translate. *)

RECURSIVE Repeat(_, _)
Repeat(x, k) == IF k <= 0 THEN <<>> ELSE <<x>> \o Repeat(x, k - 1)

RECURSIVE IndexColumn(_, _, _)
IndexColumn(c, i, n) ==
    IF i >= n THEN <<>> ELSE Repeat(i, c[i]) \o IndexColumn(c, i + 1, n)

\* the index columns of the n-best lists of an input of n sentences
IndexColumns(n) == {IndexColumn(c, 0, n) : c \in [0..(n - 1) -> 0..MaxNBest]}

\* line 107
OffsetAfter(i) == i + 1

\* line 109
ShiftedNot(i, off) == i

Shifted(i, off) == i + off

\* the value of offset after the lines of the first list
RECURSIVE OffsetAfterAll(_, _)
OffsetAfterAll(col, off) ==
    IF col = <<>> THEN off ELSE OffsetAfterAll(Tail(col), OffsetAfter(col[1]))

\* line 130: the index and the direction ID of an output line, and the
\* sentence of its list the line is a candidate for
OutLine(i, d, s) == [ind |-> i, dir |-> d, sent |-> s]

InitMerge ==
    /\ mpc = "merge_bt"
    /\ bt2ref_n \in 1..MaxSentences
    /\ src_n \in {None} \cup {<<n>> : n \in 1..MaxSentences}
    /\ bt2sys \in IndexColumns(bt2ref_n)
    /\ src2sys \in (IF src_n = None THEN {<<>>} ELSE IndexColumns(src_n[1]))
    /\ offset = 0
    /\ fout = <<>>

\* the merge variables of a specification that does not merge
IdleMerge ==
    /\ mpc = "idle"
    /\ bt2ref_n = 1 /\ src_n = None
    /\ bt2sys = <<>> /\ src2sys = <<>>
    /\ offset = 0
    /\ fout = <<>>

\* lines 101-130 for (tmp/bt2sys.txt, True)
MergeBt2Sys ==
    /\ mpc = "merge_bt"
    /\ offset' = OffsetAfterAll(bt2sys, offset)
    /\ fout' = fout \o [k \in 1..Len(bt2sys) |-> OutLine(bt2sys[k], 0, bt2sys[k])]
    /\ mpc' = (IF src_n = None THEN "merged" ELSE "merge_src")
    /\ UNCHANGED <<bt2ref_n, src_n, bt2sys, src2sys>>
    /\ UNCHANGED <<tuneVars, decVars, calVars, indVars, trainVars>>

\* lines 101-130 for (tmp/src2sys.txt, False)
MergeSrc2Sys ==
    /\ mpc = "merge_src"
    /\ fout' = fout \o [k \in 1..Len(src2sys) |->
                           OutLine(Shifted(src2sys[k], offset), 1, src2sys[k])]
    /\ mpc' = "merged"
    /\ UNCHANGED <<bt2ref_n, src_n, bt2sys, src2sys, offset>>
    /\ UNCHANGED <<tuneVars, decVars, calVars, indVars, trainVars>>

----------------------------------------------------------------------------
(* train.py main(), lines 690-715: the ten steps of the pipeline, each run
   when it lies between --from-step and --to-step.  Every step function
   begins with os.mkdir of its directory args.working/step<k>; what it does
   afterwards is kept only as its ending, normally or by an exception. *)

\* the last step (line 714)
LastStep == 10

Steps == 1..LastStep

\* the values of --from-step and --to-step of the model
StepArgs == 0..(LastStep + 1)

\* lines 696-714
InRangeOpen(k, a, b) == a <= k /\ k < b

InRange(k, a, b) == a <= k /\ k <= b

\* the working directory after an earlier run of the steps 1..n
WorkingDirs == {[k \in Steps |-> IF k <= n THEN "old" ELSE "none"] : n \in 0..LastStep}

InitTrain ==
    /\ tpc = "steps"
    /\ step = 1
    /\ from_step \in StepArgs /\ to_step \in StepArgs
    /\ stepdir \in WorkingDirs
    /\ ran = <<>>
    /\ twhy = "none"

\* the train.py variables of a specification that does not run it
IdleTrain ==
    /\ tpc = "idle"
    /\ step = 1
    /\ from_step = 1 /\ to_step = LastStep
    /\ stepdir = [k \in Steps |-> "none"]
    /\ ran = <<>>
    /\ twhy = "none"

\* the test of a step that is out of the range
SkipStep ==
    /\ tpc = "steps" /\ step <= LastStep
    /\ ~InRange(step, from_step, to_step)
    /\ step' = step + 1
    /\ tpc' = (IF step = LastStep THEN "done" ELSE "steps")
    /\ UNCHANGED <<from_step, to_step, stepdir, ran, twhy>>
    /\ UNCHANGED <<tuneVars, decVars, calVars, indVars, mrgVars>>

\* the test of a step of the range and the call of its function: os.mkdir
\* raises FileExistsError on a directory that is there, and the rest of the
\* function may raise as well
RunStep ==
    /\ tpc = "steps" /\ step <= LastStep
    /\ InRange(step, from_step, to_step)
    /\ IF stepdir[step] # "none"
       THEN /\ tpc' = "crashed" /\ twhy' = "FileExistsError"
            /\ UNCHANGED <<step, stepdir, ran>>
       ELSE /\ stepdir' = [stepdir EXCEPT ![step] = "new"]
            /\ ran' = Append(ran, step)
            /\ \E ok \in BOOLEAN :
                  IF ok
                  THEN /\ step' = step + 1
                       /\ tpc' = (IF step = LastStep THEN "done" ELSE "steps")
                       /\ UNCHANGED twhy
                  ELSE /\ tpc' = "crashed" /\ twhy' = "Exception"
                       /\ UNCHANGED step
    /\ UNCHANGED <<from_step, to_step>>
    /\ UNCHANGED <<tuneVars, decVars, calVars, indVars, mrgVars>>

----------------------------------------------------------------------------
(* tune.py 155-218: the penalty calibrator.

   Penalties are counted in units of 1/3200, so that PENALTY_DELTA and
   every midpoint the search computes are integers; length ratios in units
   of 1/320000, so that a response of slope 0.01 per unit of penalty moves
   the ratio by one unit per unit of penalty; BLEU scores in hundredths.
   None is the empty sequence, a number v the sequence <<v>>. *)

PENALTY_MIN == -11200
PENALTY_MAX == 3200
PENALTY_DELTA == 320
PENALTY_THRESHOLD == 32
RATIO_THRESHOLD == 640
BLEU_THRESHOLD == 300

\* the length ratio 1.0
One == 320000

Abs(x) == IF x < 0 THEN -x ELSE x

\* The reverse decoder and multi-bleu.perl are external programs.  The
\* length ratio they answer is a function of the two penalties, fixed for
\* the whole calibration (the decoder is deterministic); its shape below
\* fwdpenalty = SplitAt and from SplitAt on is one of
\*   inc   ratio(p) = 1 + 0.01*(p - p0)
\*   dec   ratio(p) = 1 - 0.01*(p - p0)
\*   step  1.05 below p0 and 0.95 from p0 on
\*   hi    1.05 everywhere
\*   lo    0.95 everywhere
SplitAt == PENALTY_MIN + 2 * PENALTY_DELTA

P0Vals == {-11850, -9280, -8000}

Response(k, k2, p) == [kind |-> k, kind2 |-> k2, p0 |-> p]

Responses ==
    {Response("dec", "dec", p) : p \in P0Vals} \cup
    {Response("inc", "inc", p) : p \in P0Vals} \cup
    { Response("step", "step", -8000), Response("dec", "step", -9280),
      Response("hi", "hi", -8000), Response("lo", "lo", -8000) }

KindAt(r, f) == IF f < SplitAt THEN r.kind ELSE r.kind2

Ratio(r, f, b) ==
    LET k == KindAt(r, f) IN
    CASE k = "inc"  -> One + (b - r.p0)
      [] k = "dec"  -> One - (b - r.p0)
      [] k = "step" -> IF b < r.p0 THEN One + 16000 ELSE One - 16000
      [] k = "hi"   -> One + 16000
      [] OTHER      -> One - 16000

\* the pseudo-BLEU multi-bleu.perl prints: 10.00, 12.00 or 15.00
BleuVals == {1000, 1200, 1500}

\* line 177
OuterContinuesWide(f) == f <= PENALTY_MAX + PENALTY_DELTA

OuterContinues(f) == f <= PENALTY_MAX + PENALTY_THRESHOLD

\* line 194
WithinToleranceClosed(ratio) == Abs(One - ratio) <= RATIO_THRESHOLD

WithinTolerance(ratio) == Abs(One - ratio) < RATIO_THRESHOLD

\* line 196
TooLongFlipped(ratio) == ratio < One

TooLong(ratio) == ratio > One

\* line 206
MidpointQuarter(lo, hi) == lo + (hi - lo) \div 4

Midpoint(lo, hi) == lo + (hi - lo) \div 2

\* line 210
ExceedsBest(bleu, best) == bleu > best

AtLeastBest(bleu, best) == bleu >= best

\* line 214
DeclinedClosed(bleu, best) == bleu <= best - BLEU_THRESHOLD

Declined(bleu, best) == bleu < best - BLEU_THRESHOLD

NoStats == [bleu |-> 0, ratio |-> One]

\* before line 155 no variable of the calibrator is bound
CalStart ==
    /\ fwdpenalty = PENALTY_MIN /\ bwdpenalty = PENALTY_MIN
    /\ pmin = None /\ pmax = None
    /\ pinitial = PENALTY_MIN
    /\ delta = PENALTY_DELTA
    /\ stats = NoStats
    /\ best_bleu = -100
    /\ best_penalties = [d \in Dirs |-> None]
    /\ outerSteps = 0 /\ innerEvals = 0 /\ bracketEvals = 0
    /\ w0 = None
    /\ endedBy = "none" /\ bestBy = "none"
    /\ anyTol = FALSE
    /\ minDev = None
    /\ maxBleu = None
    /\ maxAt = None
    /\ evalAt = None

InitCal == cpc = "shortest" /\ resp \in Responses /\ CalStart

\* the calibrator variables of a specification that does not calibrate
IdleCal == cpc = "idle" /\ resp = Response("dec", "dec", -8000) /\ CalStart

\* lines 155-176: the direction whose uncalibrated output is the shortest
\* relative to its input becomes the forward direction
IdentifyShortest ==
    /\ cpc = "shortest"
    /\ \E r0 \in LenRatios, r1 \in LenRatios :
           fwdind' = ForwardIndex(r0, r1)
    /\ best_bleu' = -100
    /\ best_penalties' = [d \in Dirs |-> None]
    /\ fwdpenalty' = PENALTY_MIN
    /\ bwdpenalty' = PENALTY_MIN
    /\ cpc' = "outer"
    /\ UNCHANGED <<resp, pmin, pmax, pinitial, delta, stats, calHist>>
    /\ UNCHANGED <<tuneRest, decVars, indVars, auxVars>>

\* lines 177-185: the test of the outer while and, inside it, the forward
\* translation of the development set
OuterStep ==
    /\ cpc = "outer"
    /\ IF OuterContinues(fwdpenalty)
       THEN /\ pmin' = None /\ pmax' = None
            /\ pinitial' = bwdpenalty
            /\ delta' = PENALTY_DELTA
            /\ outerSteps' = outerSteps + 1
            /\ innerEvals' = 0 /\ bracketEvals' = 0
            /\ w0' = None
            /\ endedBy' = "none"
            /\ cpc' = "inner"
       ELSE /\ cpc' = "report"
            /\ UNCHANGED <<pmin, pmax, pinitial, delta, outerSteps, innerEvals,
                           bracketEvals, w0, endedBy>>
    /\ UNCHANGED <<resp, fwdpenalty, bwdpenalty, stats, best_bleu, best_penalties,
                   bestBy, anyTol, minDev, maxBleu, maxAt, evalAt>>
    /\ UNCHANGED <<tuneVars, decVars, indVars, auxVars>>

\* lines 186-208: one pass of the inner while True
InnerStep ==
    /\ cpc = "inner"
    /\ innerEvals < MaxInner
    /\ \E bleu \in BleuVals :
         LET ratio == Ratio(resp, fwdpenalty, bwdpenalty)
             dev   == Abs(One - ratio)
             pmin1 == IF TooLong(ratio) THEN <<bwdpenalty>> ELSE pmin
             pmax1 == IF TooLong(ratio) THEN pmax ELSE <<bwdpenalty>>
         IN
         /\ stats' = [bleu |-> bleu, ratio |-> ratio]
         /\ innerEvals' = innerEvals + 1
         /\ bracketEvals' = bracketEvals + (IF pmin # None /\ pmax # None THEN 1 ELSE 0)
         /\ anyTol' = (anyTol \/ WithinTolerance(ratio))
         /\ minDev' = (IF minDev = None \/ dev < minDev[1] THEN <<dev>> ELSE minDev)
         /\ evalAt' = <<bwdpenalty>>
         /\ IF WithinTolerance(ratio)
            THEN /\ cpc' = "record"
                 /\ endedBy' = "tol"
                 /\ UNCHANGED <<pmin, pmax, bwdpenalty, delta, w0>>
            ELSE /\ pmin' = pmin1 /\ pmax' = pmax1
                 /\ IF pmin1 = None
                    THEN /\ bwdpenalty' = pinitial - delta
                         /\ delta' = delta * 2
                         /\ UNCHANGED <<cpc, endedBy, w0>>
                    ELSE IF pmax1 = None
                    THEN /\ bwdpenalty' = pinitial + delta
                         /\ delta' = delta * 2
                         /\ UNCHANGED <<cpc, endedBy, w0>>
                    ELSE /\ bwdpenalty' = Midpoint(pmin1[1], pmax1[1])
                         /\ w0' = (IF w0 = None THEN <<pmax1[1] - pmin1[1]>> ELSE w0)
                         /\ IF pmax1[1] - pmin1[1] < PENALTY_THRESHOLD
                            THEN cpc' = "record" /\ endedBy' = "width"
                            ELSE UNCHANGED <<cpc, endedBy>>
                         /\ UNCHANGED delta
    /\ UNCHANGED <<resp, fwdpenalty, pinitial, best_bleu, best_penalties,
                   outerSteps, bestBy, maxBleu, maxAt>>
    /\ UNCHANGED <<tuneVars, decVars, indVars, auxVars>>

\* lines 209-217: the end of the outer pass
Record ==
    /\ cpc = "record"
    /\ maxBleu' = (IF maxBleu = None \/ stats.bleu > maxBleu[1]
                   THEN <<stats.bleu>> ELSE maxBleu)
    /\ maxAt' = (IF maxBleu = None \/ stats.bleu >= maxBleu[1]
                 THEN <<fwdpenalty, bwdpenalty>> ELSE maxAt)
    /\ IF AtLeastBest(stats.bleu, best_bleu)
       THEN /\ best_bleu' = stats.bleu
            /\ best_penalties' = [d \in Dirs |-> IF d = fwdind THEN <<fwdpenalty>>
                                                 ELSE <<bwdpenalty>>]
            /\ bestBy' = endedBy
       ELSE UNCHANGED <<best_bleu, best_penalties, bestBy>>
    /\ IF ~AtLeastBest(stats.bleu, best_bleu) /\ Declined(stats.bleu, best_bleu)
       THEN /\ cpc' = "report"
            /\ UNCHANGED <<fwdpenalty, bwdpenalty>>
       ELSE /\ fwdpenalty' = fwdpenalty + PENALTY_DELTA
            /\ bwdpenalty' = bwdpenalty - PENALTY_DELTA
            /\ cpc' = "outer"
    /\ UNCHANGED <<resp, pmin, pmax, pinitial, delta, stats, outerSteps,
                   innerEvals, bracketEvals, w0, endedBy, anyTol, minDev, evalAt>>
    /\ UNCHANGED <<tuneVars, decVars, indVars, auxVars>>

\* line 218
Report ==
    /\ cpc = "report"
    /\ cpc' = "cal_done"
    /\ UNCHANGED <<resp, fwdpenalty, bwdpenalty, pmin, pmax, pinitial, delta,
                   stats, best_bleu, best_penalties, calHist>>
    /\ UNCHANGED <<tuneVars, decVars, indVars, auxVars>>

----------------------------------------------------------------------------
(* training/induce-phrase-table.py.

   A phrase is the sequence of its tokens (the pieces of the word between
   '&#32;'); a unigram is a phrase of one token.  The embeddings enter
   through their dot products only: sim[k][l] is the dot product of the
   source phrase k and the target phrase l.  Probabilities are exact
   fractions [n, d]; the temperature t enters as the integer exp(1/t), a
   positive temperature being one with exp(1/t) > 1, so that
   exp(s/t) = exp(1/t)^s is an integer for the dot products s of the model.
   Rounding, overflow and underflow of the float32 arithmetic of torch are
   not modelled. *)

Q(n, d) == [n |-> n, d |-> d]

QLt(a, b) == a.n * b.d < b.n * a.d

QLe(a, b) == a.n * b.d <= b.n * a.d

QEq(a, b) == a.n * b.d = b.n * a.d

QMul(a, b) == Q(a.n * b.n, a.d * b.d)

\* max() of a non-empty set of fractions
QMin(S) == CHOOSE a \in S : \A b \in S : QLe(a, b)

QMax(S) == CHOOSE a \in S : \A b \in S : QLe(b, a)

\* np.prod of the fractions f(i), i = 1..n
RECURSIVE QProd(_, _)
QProd(f, n) == IF n = 0 THEN Q(1, 1) ELSE QMul(QProd(f, n - 1), f[n])

RECURSIVE Pow(_, _)
Pow(b, s) == IF s = 0 THEN 1 ELSE b * Pow(b, s - 1)

\* (s / temperature).exp()
ExpOver(s, e) == Pow(e, s)

RECURSIVE SumOver(_, _)
SumOver(f, S) ==
    IF S = {} THEN 0
    ELSE LET i == CHOOSE j \in S : TRUE IN f[i] + SumOver(f, S \ {i})

Transpose(S, nx, nz) == [l \in 1..nz |-> [k \in 1..nx |-> S[k][l]]]

\* lines 48-49: the indices of the words without '&#32;'
Unigrams(words) == {k \in 1..Len(words) : Len(words[k]) = 1}

\* lines 47-61: the softmax of every source unigram over the target
\* unigrams, sorted descending and stored down to the first probability that
\* is not above min_prob
UnigramDictionaryAll(S, wx, wz, e, mp) ==
    LET ux == Unigrams(wx)
        uz == Unigrams(wz)
        prob(k, l) == Q(ExpOver(S[k][l], e),
                        SumOver([j \in uz |-> ExpOver(S[k][j], e)], uz))
    IN  [p \in {<<wx[k][1], wz[l][1]>> : k \in ux, l \in uz} |->
            LET k == CHOOSE i \in ux : wx[i][1] = p[1]
                l == CHOOSE j \in uz : wz[j][1] = p[2]
            IN  prob(k, l)]

UnigramDictionary(S, wx, wz, e, mp) ==
    LET ux == Unigrams(wx)
        uz == Unigrams(wz)
        prob(k, l) == Q(ExpOver(S[k][l], e),
                        SumOver([j \in uz |-> ExpOver(S[k][j], e)], uz))
        kept == {<<k, l>> \in ux \X uz : QLt(mp, prob(k, l))}
    IN  [p \in {<<wx[c[1]][1], wz[c[2]][1]>> : c \in kept} |->
            LET cc == CHOOSE c \in kept : wx[c[1]][1] = p[1] /\ wz[c[2]][1] = p[2]
            IN  prob(cc[1], cc[2])]

\* src2trg2prob[src][trg] of the defaultdict of defaultdicts of line 50
LookupZero(dict, mp, s, t) == IF <<s, t>> \in DOMAIN dict THEN dict[<<s, t>>] ELSE Q(0, 1)

Lookup(dict, mp, s, t) == IF <<s, t>> \in DOMAIN dict THEN dict[<<s, t>>] ELSE mp

\* line 76: the selections topk(size) may return for the row k: size
\* distinct columns of descending dot product, none of the columns left out
\* having a higher dot product than the last one taken
TopKAny(S, k, nz, n) ==
    {q \in [1..n -> 1..nz] : \A i, j \in 1..n : i < j => q[i] # q[j]}

TopK(S, k, nz, n) ==
    {q \in [1..n -> 1..nz] :
        /\ \A i, j \in 1..n : i < j => (q[i] # q[j] /\ S[k][q[i]] >= S[k][q[j]])
        /\ \A l \in 1..nz : (\A i \in 1..n : q[i] # l) => S[k][l] <= S[k][q[n]]}

\* the selections of topk for all the rows
TopKs(S, nx, nz, n) ==
    LET any == UNION {TopK(S, k, nz, n) : k \in 1..nx}
    IN  {sel \in [1..nx -> any] : \A k \in 1..nx : sel[k] \in TopK(S, k, nz, n)}

\* lines 85-89: the line printed for the source phrase k and the target l
Entry(S, wx, wz, e, mp, src2trg2prob, trg2src2prob, k, l) ==
    LET nx == Len(wx)
        nz == Len(wz)
        score == ExpOver(S[k][l], e)
        partition_x == SumOver([j \in 1..nz |-> ExpOver(S[k][j], e)], 1..nz)
        partition_z == SumOver([i \in 1..nx |-> ExpOver(S[i][l], e)], 1..nx)
    IN  [src |-> wx[k], trg |-> wz[l],
         invprob |-> Q(score, partition_z),
         invlexprob |-> QProd([i \in 1..Len(wx[k]) |->
                          QMax({Lookup(trg2src2prob, mp, wz[l][j], wx[k][i]) :
                                   j \in 1..Len(wz[l])})], Len(wx[k])),
         prob |-> Q(score, partition_x),
         lexprob |-> QProd([j \in 1..Len(wz[l]) |->
                          QMax({Lookup(src2trg2prob, mp, wx[k][i], wz[l][j]) :
                                   i \in 1..Len(wx[k])})], Len(wz[l]))]

\* lines 64-89: the lines of the table, sel[k] the selection of topk for the
\* row k
PhraseTable(S, wx, wz, e, mp, sel) ==
    LET src2trg2prob == UnigramDictionary(S, wx, wz, e, mp)
        trg2src2prob == UnigramDictionary(Transpose(S, Len(wx), Len(wz)), wz, wx, e, mp)
        n == Len(sel[1])
    IN  [i \in 1..(Len(wx) * n) |->
            LET k == ((i - 1) \div n) + 1
            IN  Entry(S, wx, wz, e, mp, src2trg2prob, trg2src2prob, k,
                      sel[k][((i - 1) % n) + 1])]

\* ---- inputs

PA == <<"a">>
PB == <<"b">>
PAB == <<"a", "b">>
PAC == <<"a", "c">>
PX == <<"x">>
PY == <<"y">>
PXY == <<"x", "y">>

SrcVocabs == { <<PA, PB, PAB>>, <<PA, PAC>> }

TrgVocabs == { <<PX, PY>>, <<PX, PY, PXY>> }

\* the header dimension of the embedding files
Dim == 2

\* An embedding file: the count and the dimension of its header and, for
\* every line of its body, the word and the number of components.  The
\* files of a vocabulary: the well-formed one, one whose header counts one
\* vector more than the body has, one whose header counts one less, and the
\* ones whose last vector has one component too many or a single component.
EmbFile(count, body) == [count |-> count, dim |-> Dim, body |-> body]

Body(v, last) ==
    [i \in 1..Len(v) |-> [word |-> v[i], comps |-> IF i = Len(v) THEN last ELSE Dim]]

EmbFiles(v) ==
    { EmbFile(Len(v), Body(v, Dim)),
      EmbFile(Len(v) + 1, Body(v, Dim)),
      EmbFile(Len(v) - 1, Body(v, Dim)),
      EmbFile(Len(v), Body(v, Dim + 1)),
      EmbFile(Len(v), Body(v, 1)) }

\* dot products of the source phrases (rows) with the target phrases
Sims == { << <<2, 0, 1>>, <<0, 2, 1>>, <<1, 1, 2>> >>,
          << <<2, 0, 0>>, <<0, 2, 0>>, <<2, 1, 0>> >>,
          << <<1, 1, 1>>, <<0, 1, 2>>, <<1, 0, 1>> >> }

\* exp(1 / t) of the temperatures the optimization of lines 118-133 may end at
ExpInvTs == {2, 3}

\* --min-prob: 0.1, 0.5, 1.0
MinProbs == { Q(1, 10), Q(1, 2), Q(1, 1) }

OutArgs == { [src2trg |-> TRUE, trg2src |-> TRUE],
             [src2trg |-> TRUE, trg2src |-> FALSE],
             [src2trg |-> FALSE, trg2src |-> TRUE] }

\* ---- lines 24-34: read_embeddings

\* file.readline() past the end gives '', whose split has one element: the
\* unpacking of line 31 raises ValueError; a vector of one component is
\* broadcast over the row by the assignment of line 33, any other number
\* of components than dim raises ValueError
ReadOk(file) ==
    /\ file.count <= Len(file.body)
    /\ \A i \in 1..file.count : file.body[i].comps \in {file.dim, 1}

ReadWords(file) == [i \in 1..file.count |-> file.body[i].word]

NoTables == [src2trg |-> <<>>, trg2src |-> <<>>]

InitInduce ==
    /\ ipc = "read_src"
    /\ \E v \in SrcVocabs : srcEmb \in EmbFiles(v)
    /\ \E v \in TrgVocabs : trgEmb \in {EmbFile(Len(v), Body(v, Dim)),
                                        EmbFile(Len(v) + 1, Body(v, Dim))}
    /\ sim \in Sims
    /\ min_prob \in MinProbs
    /\ size \in 1..MaxSize
    /\ outArgs \in OutArgs
    /\ src_words = <<>> /\ trg_words = <<>>
    /\ expInvT = 0
    /\ table = NoTables
    /\ iwhy = "none"

\* the variables of a specification that does not induce a phrase table
IdleInduce ==
    /\ ipc = "idle"
    /\ srcEmb = EmbFile(0, <<>>) /\ trgEmb = EmbFile(0, <<>>)
    /\ sim = <<>>
    /\ min_prob = Q(1, 10)
    /\ size = 1
    /\ outArgs = [src2trg |-> FALSE, trg2src |-> FALSE]
    /\ src_words = <<>> /\ trg_words = <<>>
    /\ expInvT = 0
    /\ table = NoTables
    /\ iwhy = "none"

\* line 111
ReadSrc ==
    /\ ipc = "read_src"
    /\ IF ReadOk(srcEmb)
       THEN /\ src_words' = ReadWords(srcEmb)
            /\ ipc' = "read_trg"
            /\ UNCHANGED iwhy
       ELSE /\ ipc' = "crashed" /\ iwhy' = "ValueError"
            /\ UNCHANGED src_words
    /\ UNCHANGED <<srcEmb, trgEmb, trg_words, sim, min_prob, size, outArgs,
                   expInvT, table>>
    /\ UNCHANGED <<tuneVars, decVars, calVars, auxVars>>

\* line 112
ReadTrg ==
    /\ ipc = "read_trg"
    /\ IF ReadOk(trgEmb)
       THEN /\ trg_words' = ReadWords(trgEmb)
            /\ ipc' = "temperature"
            /\ UNCHANGED iwhy
       ELSE /\ ipc' = "crashed" /\ iwhy' = "ValueError"
            /\ UNCHANGED trg_words
    /\ UNCHANGED <<srcEmb, trgEmb, src_words, sim, min_prob, size, outArgs,
                   expInvT, table>>
    /\ UNCHANGED <<tuneVars, decVars, calVars, auxVars>>

\* lines 113-142: normalization and the optimization of the temperature
OptimizeTemperature ==
    /\ ipc = "temperature"
    /\ expInvT' \in ExpInvTs
    /\ ipc' = "src2trg"
    /\ UNCHANGED <<srcEmb, trgEmb, src_words, trg_words, sim, min_prob, size,
                   outArgs, table, iwhy>>
    /\ UNCHANGED <<tuneVars, decVars, calVars, auxVars>>

\* lines 64-89 for one call of write_phrase_table: topk raises when size
\* exceeds the number of target phrases, before any line is printed
WritePhraseTable(S, wx, wz, out, next) ==
    IF size > Len(wz)
    THEN /\ ipc' = "crashed" /\ iwhy' = "RuntimeError"
         /\ UNCHANGED table
    ELSE /\ \E sel \in TopKs(S, Len(wx), Len(wz), size) :
              /\ table' = [table EXCEPT
                    ![out] = PhraseTable(S, wx, wz, expInvT, min_prob, sel)]
         /\ ipc' = next
         /\ UNCHANGED iwhy

\* lines 144-146
WriteSrc2Trg ==
    /\ ipc = "src2trg"
    /\ IF outArgs.src2trg
       THEN WritePhraseTable(sim, src_words, trg_words, "src2trg", "trg2src")
       ELSE ipc' = "trg2src" /\ UNCHANGED <<table, iwhy>>
    /\ UNCHANGED <<srcEmb, trgEmb, src_words, trg_words, sim, min_prob, size,
                   outArgs, expInvT>>
    /\ UNCHANGED <<tuneVars, decVars, calVars, auxVars>>

\* lines 148-150
WriteTrg2Src ==
    /\ ipc = "trg2src"
    /\ IF outArgs.trg2src
       THEN WritePhraseTable(Transpose(sim, Len(src_words), Len(trg_words)),
                             trg_words, src_words, "trg2src", "done")
       ELSE ipc' = "done" /\ UNCHANGED <<table, iwhy>>
    /\ UNCHANGED <<srcEmb, trgEmb, src_words, trg_words, sim, min_prob, size,
                   outArgs, expInvT>>
    /\ UNCHANGED <<tuneVars, decVars, calVars, auxVars>>

----------------------------------------------------------------------------
(* Specifications *)

\* the tuner variables of a specification that does not run the tuning loop
IdleTune ==
    /\ args = [supervised |-> FALSE, length_init |-> FALSE, iterations |-> 0,
               input |-> <<CfgCanon, CfgCanon>>]
    /\ InitTune

\* the tuner variables while main() calibrates (args.length_init is set)
CalTune ==
    /\ args = [supervised |-> FALSE, length_init |-> TRUE, iterations |-> 0,
               input |-> <<CfgCanon, CfgCanon>>]
    /\ InitTune

Init == InitTune /\ IdleDecode /\ IdleCal /\ IdleInduce /\ IdleMerge /\ IdleTrain

Next == TunerStep \/ Rerun

Spec == Init /\ [][Next]_vars

InitD == IdleTune /\ InitDecode /\ IdleCal /\ IdleInduce /\ IdleMerge /\ IdleTrain

NextD == NewSubIteration \/ DecodeInvoke

SpecDecode == InitD /\ [][NextD]_vars

InitC == CalTune /\ IdleDecode /\ InitCal /\ IdleInduce /\ IdleMerge /\ IdleTrain

NextC == IdentifyShortest \/ OuterStep \/ InnerStep \/ Record \/ Report

SpecCal == InitC /\ [][NextC]_vars

InitI == IdleTune /\ IdleDecode /\ IdleCal /\ InitInduce /\ IdleMerge /\ IdleTrain

NextI == ReadSrc \/ ReadTrg \/ OptimizeTemperature \/ WriteSrc2Trg \/ WriteTrg2Src

SpecInduce == InitI /\ [][NextI]_vars

\* one supervised run of tune.py with the runs of decode.py under ZMERT
InitS == InitTune /\ args.supervised /\ IdleDecode /\ IdleCal /\ IdleInduce /\ IdleMerge /\ IdleTrain

NextS ==
    \/ StartCopy
    \/ Entropies
    \/ ForIt
    \/ ForDir
    \/ SubIterationStart
    \/ ZmertDecodes
    \/ Optimize
    \/ Replace
    \/ Compare
    \/ Finish

SpecSupervised == InitS /\ [][NextS]_vars

\* one run of tune.py with a ZMERT whose final file may lack lines
NextA ==
    \/ StartCopy
    \/ StartLengthInit
    \/ Entropies
    \/ ForIt
    \/ ForDir
    \/ BuildReference
    \/ OptimizeAny
    \/ Replace
    \/ Compare
    \/ Finish

SpecAnyFinal == Init /\ [][NextA]_vars

InitM == IdleTune /\ IdleDecode /\ IdleCal /\ IdleInduce /\ InitMerge /\ IdleTrain

NextM == MergeBt2Sys \/ MergeSrc2Sys

SpecMerge == InitM /\ [][NextM]_vars

InitT == IdleTune /\ IdleDecode /\ IdleCal /\ IdleInduce /\ IdleMerge /\ InitTrain

NextT == SkipStep \/ RunStep

SpecTrain == InitT /\ [][NextT]_vars

\* the calibrator is sequential code: it takes its next step as long as it
\* has one
FairSpecCal == InitC /\ [][NextC]_vars /\ WF_vars(NextC)

\* every step of a run is taken as long as the run has not ended: main() is
\* sequential code whose external calls return
FairSpec == Init /\ [][Next]_vars /\ WF_vars(TunerStep)

----------------------------------------------------------------------------
(* Claims about the tuning loop *)

SubIterationPcs == {"build_reference", "optimize", "replace", "compare"}

Ended == pc \in {"done", "crashed"}

\* C1: the loop stops early exactly when the file just written is identical,
\* as bytes, to the file of the preceding iteration of the same direction: the
\* result of the last comparison is this equality, early_stop is set iff it
\* was positive, no step of a sub-iteration is taken once it is set, and after
\* a negative comparison the next sub-iteration is the other direction of the
\* same iteration (after the first) or the first of the next iteration (after
\* the second), the loop ending without a stop only with the budget used up.
C1_StopsIffIdentical ==
    /\ lastCmp.it >= 0 =>
          (lastCmp.same <=>
              itfile[lastCmp.ind][lastCmp.it] = itfile[lastCmp.ind][lastCmp.it + 1])
    /\ early_stop <=> (lastCmp.it >= 0 /\ lastCmp.same)
    /\ early_stop => pc \notin SubIterationPcs
    /\ (pc \in SubIterationPcs /\ lastCmp.it >= 0) =>
          IF lastCmp.is_first
          THEN it = lastCmp.it /\ ~is_first /\ ind = 1 - lastCmp.ind
          ELSE it = lastCmp.it + 1 /\ is_first /\ ind = 1 - lastCmp.ind
    /\ (pc = "done" /\ lastCmp.it >= 0 /\ ~lastCmp.same) =>
          (~lastCmp.is_first /\ lastCmp.it + 1 = iterations)

\* a comparison found the files different although they hold the same weights,
\* and the loop went on with the next sub-iteration
C1_Witness ==
    /\ pc = "build_reference"
    /\ lastCmp.it >= 0 /\ ~lastCmp.same
    /\ ExtractMosesParams(itfile[lastCmp.ind][lastCmp.it])
          = ExtractMosesParams(itfile[lastCmp.ind][lastCmp.it + 1])

\* C2: after an early stop at iteration it in direction d, the final file of d
\* is d's file of iteration it, which equals its file of iteration it+1, and
\* the final file of the other direction is the file that direction wrote
\* last: iteration it when d is tuned first, it+1 when d is tuned second.
C2_CurrentWeightsFinal ==
    early_stop =>
        LET d == lastCmp.ind
            o == 1 - lastCmp.ind
            k == lastCmp.it
            ko == IF lastCmp.is_first THEN k ELSE k + 1
        IN  /\ final[d].exists /\ final[o].exists
            /\ final[d] = itfile[d][k]
            /\ final[d] = itfile[d][k + 1]
            /\ latest[d] = k + 1
            /\ final[o] = itfile[o][ko]
            /\ latest[o] = ko

\* the run ended by an early stop in the direction tuned second
C2_Witness ==
    /\ pc = "done" /\ early_stop
    /\ ~lastCmp.is_first /\ lastCmp.it = 1

\* C3: the loop terminates: every run ends; it begins at most `iterations`
\* iterations (1 when supervised) and invokes the optimizer at most
\* 2*iterations times; a run that ends normally ends on convergence or with
\* the budget used up, the final files then being copies of the existing
\* files of iteration `iterations`; a run ends by an exception only after an
\* external call failed or on output paths an earlier run wrote.
C3_Terminates ==
    /\ [](it + 1 <= iterations /\ nOpt <= 2 * iterations)
    /\ [](args.supervised /\ pc \in SubIterationPcs => iterations = 1 /\ it = 0)
    /\ [](pc = "done" =>
            \/ early_stop
            \/ /\ it + 1 = iterations
               /\ \A d \in Dirs : /\ itfile[d][iterations].exists
                                  /\ final[d] = itfile[d][iterations])
    /\ [](pc = "crashed" => extFail \/ run > 1)
    /\ [](~Ended => <>Ended)

\* a run used its whole budget of two iterations
C3_Witness ==
    /\ pc = "done" /\ ~early_stop
    /\ iterations = 2 /\ nOpt = 4 /\ run = 1

\* C5: once an external call of a run has failed, the run writes no
\* iteration-numbered file and no final file and starts no optimizer.
C5_FailureStopsLoop ==
    [][extFail => (itfile' = itfile /\ final' = final /\ nOpt' = nOpt)]_vars

\* C6: a run started after a run that failed in iteration k >= 1 (iterations
\* 0..k-1 completed) executes no sub-iteration of an iteration before k.
C6_RerunResumes ==
    (run > 1 /\ prev.ended = "crashed" /\ prev.it >= 1 /\ pc \in SubIterationPcs)
        => it >= prev.it

\* C7: no write hits an iteration-numbered path that already holds a file.
C7_WrittenOnce == ~clobbered

----------------------------------------------------------------------------
(* Claims about the translation cache (SpecDecode) *)

\* C4 as claimed: within one run of the tuner, over all its sub-iterations,
\* the reverse decoder translates a string at most once and all lookups of
\* the string return the same translation.
C4_OncePerRun ==
    \A s \in Cands : sentRun[s] <= 1 /\ Cardinality(lookRun[s]) <= 1

\* C4 as amended: within one sub-iteration the reverse decoder translates a
\* string at most once, a translated string is in the cache file, and all
\* lookups of the string in the sub-iteration return the same translation.
C4_OncePerSubIteration ==
    \A s \in Cands :
        /\ sentSub[s] <= 1
        /\ Cardinality(lookSub[s]) <= 1
        /\ sentSub[s] = 1 => \E i \in 1..Len(cacheFile) : cacheFile[i].src = s
        /\ \A t \in lookSub[s] :
              \E i \in 1..Len(cacheFile) : cacheFile[i] = [src |-> s, trg |-> t]

\* a string translated once was looked up by two runs of decode.py of the
\* same sub-iteration
C4_Witness ==
    \E s \in Cands :
        /\ invocations = 2 /\ outcome = "ok"
        /\ sentSub[s] = 1 /\ nLookSub[s] >= 2

----------------------------------------------------------------------------
(* The penalty calibrator *)

RECURSIVE Pow2(_)
Pow2(n) == IF n <= 0 THEN 1 ELSE 2 * Pow2(n - 1)

\* What converging means for a response of slope 0.01 through ratio 1 at p0,
\* where the ratio is within tolerance exactly of the penalties nearer than
\* 0.2 (RATIO_THRESHOLD of the model's units) to p0:
\*  - the doubling phase is over after at most log2 of the distance from
\*    pinitial to p0: as long as a bound is missing after k >= 2 evaluations,
\*    the last step PENALTY_DELTA * 2^(k-2) has not reached the tolerance zone;
\*  - once both bounds are set the search ends within
\*    log2(w0 / (2 * 0.2)) + 1 evaluations, w0 the first bracket width;
\*  - the search ends by the ratio test, never by the bracket width, at a
\*    penalty within the tolerance of p0
Converges ==
    /\ (cpc = "inner" /\ innerEvals >= 2 /\ (pmin = None \/ pmax = None)) =>
           PENALTY_DELTA * Pow2(innerEvals - 2) + RATIO_THRESHOLD
               <= Abs(resp.p0 - pinitial)
    /\ bracketEvals >= 1 =>
           /\ w0 # None
           /\ 2 * RATIO_THRESHOLD * Pow2(bracketEvals - 1) <= w0[1]
    /\ cpc = "record" =>
           /\ endedBy = "tol"
           /\ Abs(bwdpenalty - resp.p0) < RATIO_THRESHOLD
           /\ Abs(One - stats.ratio) < RATIO_THRESHOLD
           /\ stats.ratio = Ratio(resp, fwdpenalty, bwdpenalty)

ReportedRatio ==
    Ratio(resp, best_penalties[fwdind][1], best_penalties[bwdind][1])

\* C10, as amended: the reported pair is the pair of an outer pass with the
\* highest pseudo-BLEU; it is within the ratio tolerance when the inner
\* search of that pass ended by the ratio test
C10_ReportsBestBleu ==
    cpc = "cal_done" =>
        /\ best_bleu = maxBleu[1]
        /\ \A d \in Dirs : best_penalties[d] # None
        /\ bestBy \in {"tol", "width"}
        /\ bestBy = "tol" => Abs(One - ReportedRatio) < RATIO_THRESHOLD

\* C10, as claimed: the reported pair is within the ratio tolerance whenever
\* some evaluated pair was, and else is at least as close to ratio 1 as
\* every evaluated pair
C10_ReportsWithinTolerance ==
    cpc = "cal_done" =>
        IF anyTol THEN Abs(One - ReportedRatio) < RATIO_THRESHOLD
        ELSE Abs(One - ReportedRatio) <= minDev[1]

\* a sweep over all 46 forward penalties in which some pair met the
\* tolerance and the reported pair comes from a pass that ended by the
\* ratio test
C10_Witness ==
    /\ cpc = "cal_done"
    /\ outerSteps = 46
    /\ anyTol /\ bestBy = "tol"
    /\ Abs(One - ReportedRatio) < RATIO_THRESHOLD

\* C11: the inner search of an outer pass is capped: no search is still
\* running after MaxInner backward translations, whatever the response of
\* the backward decoder
C11_InnerSearchCapped == cpc = "inner" => innerEvals < MaxInner

----------------------------------------------------------------------------
(* The tuning loop, continued *)

\* C12: when the optimizer returns, for every feature, the values of the
\* direction's previous weight file, the file written for the new iteration
\* is byte-identical to the previous one and the comparison that follows
\* detects convergence
C12_Idempotent ==
    /\ (/\ pc = "compare"
        /\ ExtractZmertParams(zfinal) = ExtractMosesParams(itfile[ind][it]))
           => itfile[ind][it + 1] = itfile[ind][it]
    /\ (/\ pc = "for_dir" /\ zfinal.exists
        /\ lastCmp.it = it /\ lastCmp.ind = ind
        /\ ExtractZmertParams(zfinal) = ExtractMosesParams(itfile[ind][it]))
           => early_stop

----------------------------------------------------------------------------
(* The induction of the phrase tables *)

Tokens == {"a", "b", "c", "x", "y"}

\* the temperature is set: the dictionaries can be built
Calibrated == ipc \in {"src2trg", "trg2src", "done"}

\* the two dictionaries of write_phrase_table(x, z, ...)
Src2Trg == UnigramDictionary(sim, src_words, trg_words, expInvT, min_prob)

Trg2Src ==
    UnigramDictionary(Transpose(sim, Len(src_words), Len(trg_words)),
                      trg_words, src_words, expInvT, min_prob)

\* C13: every entry unigram_dictionary stores is above the floor; a lookup
\* of a pair it did not store, the pairs of a token without any entry
\* included, gives exactly min_prob, which is not zero; and a source phrase
\* with such a token has its lines in the table, its lexical scores built
\* from the floor
C13_FloorForUnstored ==
    Calibrated =>
        /\ \A d \in {Src2Trg, Trg2Src} :
              /\ \A p \in DOMAIN d : QLt(min_prob, d[p])
              /\ \A u \in Tokens, v \in Tokens :
                    <<u, v>> \notin DOMAIN d =>
                        /\ Lookup(d, min_prob, u, v) = min_prob
                        /\ Lookup(d, min_prob, u, v).n > 0
        /\ (ipc \in {"trg2src", "done"} /\ outArgs.src2trg) =>
              /\ \A k \in 1..Len(src_words) :
                    \E i \in 1..Len(table.src2trg) :
                        table.src2trg[i].src = src_words[k]
              /\ \A i \in 1..Len(table.src2trg) :
                    LET e == table.src2trg[i] IN
                    (e.src = PAC /\ Len(e.trg) = 1) =>
                        /\ QEq(e.invlexprob,
                               QMul(Lookup(Trg2Src, min_prob, e.trg[1], "a"), min_prob))
                        /\ QLe(min_prob, e.lexprob)

\* the table holds the lines of a phrase with a token out of the unigram
\* vocabulary
C13_Witness ==
    /\ ipc = "done"
    /\ \E i \in 1..Len(table.src2trg) : table.src2trg[i].src = PAC
    /\ QLt(min_prob, Q(1, 1))
    /\ DOMAIN Src2Trg # {}

InUnit(q) == 0 < q.n /\ q.n <= q.d

\* C14: the four scores of every line written lie in (0, 1]
C14_ScoresInUnit ==
    \A o \in {"src2trg", "trg2src"} :
        \A i \in 1..Len(table[o]) :
            LET e == table[o][i] IN
            /\ InUnit(e.invprob) /\ InUnit(e.invlexprob)
            /\ InUnit(e.prob) /\ InUnit(e.lexprob)

\* both tables are written, with lines of multiword phrases whose lexical
\* scores come from stored entries and from the floor
C14_Witness ==
    /\ ipc = "done"
    /\ \E i \in 1..Len(table.src2trg) :
          /\ Len(table.src2trg[i].src) = 2
          /\ QLt(table.src2trg[i].invlexprob, min_prob)
    /\ \E i \in 1..Len(table.trg2src) : QLt(min_prob, table.trg2src[i].lexprob)

\* the source words, the target words and the dot products of the call of
\* write_phrase_table that writes the table o
SrcOf(o) == IF o = "src2trg" THEN src_words ELSE trg_words

TrgOf(o) == IF o = "src2trg" THEN trg_words ELSE src_words

SimOf(o) ==
    IF o = "src2trg" THEN sim
    ELSE Transpose(sim, Len(src_words), Len(trg_words))

IndexOf(words, w) == CHOOSE l \in 1..Len(words) : words[l] = w

\* the table o has, for every source phrase in turn, size lines that pair it
\* with size different targets, none of the targets left out having a
\* higher dot product than one taken
KBestPerPhrase(o) ==
    LET t == table[o]
        wx == SrcOf(o)
        wz == TrgOf(o)
        S == SimOf(o)
    IN  /\ size <= Len(wz)
        /\ Len(t) = size * Len(wx)
        /\ \A k \in 1..Len(wx) :
              LET rows == {(k - 1) * size + j : j \in 1..size}
                  taken == {IndexOf(wz, t[i].trg) : i \in rows}
              IN  /\ \A i \in rows : t[i].src = wx[k]
                  /\ Cardinality(taken) = size
                  /\ \A l \in (1..Len(wz)) \ taken :
                        \A m \in taken : S[k][l] <= S[k][m]

\* C15, as amended: a table that was written has exactly size lines for
\* every source phrase, with its size targets of highest dot product, when
\* size does not exceed the number of target phrases; when it does, topk
\* raises and the table stays empty
C15_KBestWhenEnoughTargets ==
    /\ \A o \in {"src2trg", "trg2src"} :
          /\ Len(table[o]) > 0 => KBestPerPhrase(o)
          /\ (ipc = "done" /\ outArgs[o]) => KBestPerPhrase(o)
    /\ (ipc = "crashed" /\ iwhy = "RuntimeError") =>
          \E o \in {"src2trg", "trg2src"} :
              /\ outArgs[o] /\ size > Len(TrgOf(o))
              /\ table[o] = <<>>

\* C15, as claimed: once main() has ended after reading its embeddings,
\* every table it was asked for has size lines for every source phrase
C15_KPerSourcePhrase ==
    (ipc = "done" \/ (ipc = "crashed" /\ iwhy = "RuntimeError")) =>
        \A o \in {"src2trg", "trg2src"} :
            outArgs[o] => Len(table[o]) = size * Len(SrcOf(o))

\* both tables written with two lines for each source phrase, one target
\* left out
C15_Witness ==
    /\ ipc = "done"
    /\ size = 2
    /\ Len(trg_words) = 3
    /\ Len(table.src2trg) = 2 * Len(src_words)
    /\ Len(table.trg2src) = 2 * Len(trg_words)

\* the scenario of source phrases a, b, a_b and target phrases x, y with
\* dot products favouring a -> x and b -> y, top-K = 1, the src2trg table
\* written
ScenarioAB ==
    /\ ipc \in {"trg2src", "done"} /\ outArgs.src2trg
    /\ src_words = <<PA, PB, PAB>> /\ trg_words = <<PX, PY>>
    /\ sim[1][1] > sim[1][2] /\ sim[2][2] > sim[2][1]
    /\ size = 1

\* the line of a_b: the third source phrase, one line for each
EntryAB == table.src2trg[3]

\* the highest lexical probability of the source token u over x and y
MaxLex(u) ==
    LET px == Lookup(Src2Trg, min_prob, u, "x")
        py == Lookup(Src2Trg, min_prob, u, "y")
    IN  IF QLe(px, py) THEN py ELSE px

\* C16, as amended: the line of a_b with its target t (x or y) has the
\* forward lexical score max(lex(a -> t), lex(b -> t)), the higher of the
\* two, and the reverse lexical score lex(t -> a) * lex(t -> b)
C16_LexicalScoresOfAB ==
    ScenarioAB =>
        LET t == EntryAB.trg[1]
            la == Lookup(Src2Trg, min_prob, "a", t)
            lb == Lookup(Src2Trg, min_prob, "b", t)
        IN  /\ EntryAB.src = PAB /\ EntryAB.trg \in {PX, PY}
            /\ QEq(EntryAB.lexprob, IF QLe(la, lb) THEN lb ELSE la)
            /\ QEq(EntryAB.invlexprob,
                   QMul(Lookup(Trg2Src, min_prob, t, "a"),
                        Lookup(Trg2Src, min_prob, t, "b")))

\* C16, as claimed: a lexical score of the line of a_b is the product of
\* the highest lexical probability of a over {x, y} and the highest
\* lexical probability of b over {x, y}
C16_ProductOfMaxima ==
    ScenarioAB =>
        \/ QEq(EntryAB.lexprob, QMul(MaxLex("a"), MaxLex("b")))
        \/ QEq(EntryAB.invlexprob, QMul(MaxLex("a"), MaxLex("b")))

\* the scenario with a floor of 0.1, under which a -> x and b -> y are
\* stored and a -> y, b -> x may be not
C16_Witness ==
    /\ ScenarioAB
    /\ min_prob = Q(1, 10)
    /\ <<"a", "x">> \in DOMAIN Src2Trg /\ <<"b", "y">> \in DOMAIN Src2Trg
    /\ QLt(EntryAB.invlexprob, EntryAB.lexprob)

\* the header of the file agrees with its body
WellFormed(file) ==
    /\ file.count = Len(file.body)
    /\ \A i \in 1..Len(file.body) : file.body[i].comps = file.dim

\* C17: an embedding file whose body disagrees with its header ends main()
\* in read_embeddings, before a line of a phrase table is written
C17_MalformedIsFatal ==
    (~WellFormed(srcEmb) \/ ~WellFormed(trgEmb)) =>
        /\ ipc \in {"read_src", "read_trg", "crashed"}
        /\ ipc = "crashed" => iwhy = "ValueError"
        /\ table = NoTables

----------------------------------------------------------------------------
(* The tuning loop: the files of a sub-iteration *)

\* a step of a sub-iteration changes no iteration-numbered file but the
\* direction's own iteration-(it+1) file, which did not exist
WritesOwnNextFile ==
    pc \in SubIterationPcs =>
        \A d \in Dirs, k \in 0..(MaxIterations + 1) :
            itfile'[d][k] # itfile[d][k] =>
                (pc = "replace" /\ d = ind /\ k = it + 1 /\ ~itfile[d][k].exists)

\* C18: inside a sub-iteration of iteration it, the configuration under
\* tuning is the direction's own iteration-it file and the fixed reverse
\* model is the other direction's iteration-it file for the direction tuned
\* first, its iteration-(it+1) file for the direction tuned second; both
\* exist and are the last ones the current run wrote for their direction;
\* and a step of a sub-iteration changes no iteration-numbered file but
\* the direction's own iteration-(it+1) file
C18_ReadsWhatWasWritten ==
    /\ [](pc \in SubIterationPcs =>
            LET r == IF is_first THEN it ELSE it + 1 IN
            /\ rind = 1 - ind
            /\ src2trg_config = itfile[ind][it]
            /\ trg2src_config = itfile[rind][r]
            /\ itfile[ind][it].exists /\ itfile[rind][r].exists
            /\ latest[rind] = r
            /\ latest[ind] = (IF pc = "compare" THEN it + 1 ELSE it))
    /\ [][WritesOwnNextFile]_vars

\* the direction tuned second in iteration 1 of an unsupervised run, with
\* the other direction's iteration-2 file as its reverse model
C18_Witness ==
    /\ pc = "optimize"
    /\ ~args.supervised
    /\ ~is_first /\ it = 1
    /\ trg2src_config = itfile[rind][2]
    /\ itfile[rind][2].exists


\* a trial outside the tolerance sets the lower bound of the bracket when its
\* ratio exceeds 1 and the upper bound when its ratio is below 1, and a trial
\* within the tolerance sets neither
OrientsBracket ==
    (cpc = "inner" /\ innerEvals' = innerEvals + 1) =>
        LET ratio == stats'.ratio IN
        /\ ratio = Ratio(resp, fwdpenalty, bwdpenalty)
        /\ (Abs(One - ratio) >= RATIO_THRESHOLD /\ ratio > One) =>
               (pmin' = <<bwdpenalty>> /\ pmax' = pmax)
        /\ (Abs(One - ratio) >= RATIO_THRESHOLD /\ ratio < One) =>
               (pmax' = <<bwdpenalty>> /\ pmin' = pmin)
        /\ Abs(One - ratio) < RATIO_THRESHOLD =>
               (pmin' = pmin /\ pmax' = pmax)

\* a trial that moves a bound of a bracket with both bounds halves its width
HalvesBracket ==
    (/\ cpc = "inner" /\ pmin # None /\ pmax # None
     /\ (pmin' # pmin \/ pmax' # pmax)) =>
        /\ pmin' # None /\ pmax' # None
        /\ 2 * (pmax'[1] - pmin'[1]) = pmax[1] - pmin[1]

\* with both bounds set the bracket is ordered and the trial penalty of the
\* next evaluation is its midpoint
BracketOrdered ==
    (pmin # None /\ pmax # None) =>
        /\ pmin[1] < pmax[1]
        /\ cpc = "inner" => 2 * bwdpenalty = pmin[1] + pmax[1]

\* C19, as amended: a trial outside the tolerance sets pmin when its ratio
\* exceeds 1 and pmax when it is below 1; with both bounds set pmin < pmax,
\* the next trial is the midpoint and each trial that moves a bound halves
\* pmax - pmin; the number of trials at midpoints is at most
\* log2(w0 / PENALTY_THRESHOLD) + 1, w0 the width of the first bracket
C19_BisectsWithinLogPlusOne ==
    /\ [][OrientsBracket /\ HalvesBracket]_vars
    /\ [](BracketOrdered)
    /\ [](bracketEvals >= 1 =>
            (w0 # None /\ PENALTY_THRESHOLD * Pow2(bracketEvals - 1) <= w0[1]))

\* C19, as claimed: the same with at most log2(w0 / PENALTY_THRESHOLD) trials
\* at midpoints
C19_BisectsWithinLog ==
    /\ [][OrientsBracket /\ HalvesBracket]_vars
    /\ [](BracketOrdered)
    /\ [](bracketEvals >= 1 =>
            (w0 # None /\ PENALTY_THRESHOLD * Pow2(bracketEvals) <= w0[1]))

\* a search that got both bounds, made at least two trials at midpoints and
\* ended because the bracket became narrower than PENALTY_THRESHOLD
C19_Witness ==
    /\ cpc = "record" /\ endedBy = "width"
    /\ pmin # None /\ pmax # None
    /\ bracketEvals >= 2
    /\ pmax[1] - pmin[1] < PENALTY_THRESHOLD


\* the end of an outer step whose pseudo-BLEU is below the best so far: more
\* than BLEU_THRESHOLD below, the sweep is over and the forward penalty is
\* not advanced; at most BLEU_THRESHOLD below, the sweep goes on with the
\* next forward penalty; in both cases the best pair and its pseudo-BLEU stay
AbortsOnDecline ==
    (cpc = "record" /\ stats.bleu < best_bleu) =>
        /\ best_bleu' = best_bleu /\ best_penalties' = best_penalties
        /\ IF best_bleu - stats.bleu > BLEU_THRESHOLD
           THEN cpc' = "report" /\ fwdpenalty' = fwdpenalty
           ELSE cpc' = "outer" /\ fwdpenalty' = fwdpenalty + PENALTY_DELTA

\* once the sweep is over no outer step is started and no pair is evaluated
NothingAfterSweep ==
    cpc \in {"report", "cal_done"} =>
        /\ cpc' \in {"report", "cal_done"}
        /\ outerSteps' = outerSteps /\ innerEvals' = innerEvals
        /\ fwdpenalty' = fwdpenalty /\ stats' = stats

\* C20: the outer sweep is aborted at the first outer step whose recorded
\* pseudo-BLEU is more than BLEU_THRESHOLD below the best so far, and no
\* forward penalty is evaluated after it; a step whose pseudo-BLEU is below
\* the best by at most the margin does not stop the sweep and does not
\* change the best pair
C20_AbortsOnBleuDecline == [][AbortsOnDecline /\ NothingAfterSweep]_vars

\* the sweep went on after a step exactly BLEU_THRESHOLD below the best and
\* was aborted after a later step, before the forward penalties ran out
C20_Witness ==
    /\ cpc = "cal_done"
    /\ outerSteps = 3
    /\ best_bleu = 1500 /\ stats.bleu = 1000
    /\ best_penalties[fwdind] = <<PENALTY_MIN>>
    /\ fwdpenalty = PENALTY_MIN + 2 * PENALTY_DELTA


\* C21: at the end of the outer sweep the reported pseudo-BLEU is the
\* highest one any evaluated outer step was recorded with, the reported pair
\* is the pair of the last outer step recorded with it, and both penalties
\* of the pair are set (at least one outer step is always evaluated)
C21_ReportsLatestMaximum ==
    cpc = "cal_done" =>
        /\ outerSteps >= 1
        /\ maxBleu # None /\ best_bleu = maxBleu[1]
        /\ \A d \in Dirs : best_penalties[d] # None
        /\ maxAt = <<best_penalties[fwdind][1], best_penalties[1 - fwdind][1]>>

\* a sweep of three steps recorded with 12.00, 12.00 and 10.00: the pair of
\* the second step is reported
C21_Witness ==
    /\ cpc = "cal_done"
    /\ outerSteps >= 3
    /\ best_bleu = 1200 /\ stats.bleu = 1000
    /\ best_penalties[fwdind] = <<PENALTY_MIN + PENALTY_DELTA>>


\* C24: the backward penalty an outer step is recorded with is the penalty
\* of the last run of the reverse decoder, and the recorded pseudo-BLEU and
\* ratio are those measured at it, however the inner search ended
C24_RecordedPenaltyEvaluated ==
    cpc = "record" =>
        /\ evalAt = <<bwdpenalty>>
        /\ stats.ratio = Ratio(resp, fwdpenalty, bwdpenalty)


\* the last element of a non-empty sequence
Last(col) == col[Len(col)]

\* every candidate of the second list for sentence i carries index n + i,
\* no index is carried by lines of both lists, and every index is that of
\* its sentence's line in the reference file (the n lines of the first
\* list's references, then those of the second list)
IndexedFrom(n) ==
    /\ \A k \in DOMAIN fout :
          fout[k].ind = (IF fout[k].dir = 0 THEN fout[k].sent ELSE n + fout[k].sent)
    /\ \A k \in DOMAIN fout : fout[k].dir = 0 => fout[k].ind < n
    /\ \A k, l \in DOMAIN fout : fout[k].dir # fout[l].dir => fout[k].ind # fout[l].ind

C23_SupervisedSkipsBackTranslation ==
    args.supervised =>
        /\ pc \in {"optimize", "replace", "compare"} =>
               /\ input_txt = <<"dev", ind>>
               /\ reference_txt = <<rind>>
               /\ cmd_src = None /\ src = "none"
        /\ ~backTranslated
        /\ \A s \in Cands : sentRun[s] = 0
        /\ cacheFile = <<>>
        /\ it \in {-1, 0}
        /\ pc \in SubIterationPcs => (it = 0 /\ iterations = 1)
        /\ pc = "done" => (it = 0 /\ iterations = 1 /\ nOpt \in {1, 2})

\* a supervised run asked for two iterations ended after the two
\* sub-iterations of one, ZMERT having run decode.py in the second
C23_Witness ==
    /\ pc = "done"
    /\ args.supervised /\ args.iterations = 2
    /\ nOpt = 2 /\ subits = 2
    /\ invocations >= 1 /\ outcome = "ok"
    /\ reference_txt = <<rind>>


\* the features of the [weight] section of a file in the order of their
\* lines, each with the number of its values
FeatureShape(f) ==
    LET ls == f.lines
        ps == {i \in 1..Len(ls) : Started(ls, i) /\ ls[i].toks # <<>>}
    IN  [i \in ps |-> <<DropLast(ls[i].toks[1]), Len(ls[i].toks) - 1>>]

\* C25: the weight file a sub-iteration has written lists the same features
\* in the same order and with the same number of values each as the file of
\* the previous iteration of the direction, whatever final file the
\* optimizer left
C25_SameFeatureShape ==
    pc = "compare" =>
        FeatureShape(itfile[ind][it + 1]) = FeatureShape(itfile[ind][it])


\* C26: the lines of the cache file load without error as the pairs that
\* were appended, whatever the reverse decoder returned, and no two lines
\* of the file have the same source string
C26_CacheRoundTrip ==
    /\ CacheLoads(cacheFile)
    /\ \A i \in 1..Len(cacheFile) :
          /\ cacheFile[i].src \in DOMAIN LoadCache(cacheFile)
          /\ LoadCache(cacheFile)[cacheFile[i].src] = cacheFile[i].trg
    /\ \A i, j \in 1..Len(cacheFile) :
          i # j => cacheFile[i].src # cacheFile[j].src


\* C27: a run of decode.py with --src for which the reverse decoder
\* returned a line for every sentence it was given finds every candidate of
\* the source-side list in the cache: it ends without KeyError
C27_NoMissWhenAllTranslated ==
    (src = "dev" /\ invocations >= 1 /\ outcome # "ValueError" /\ missing = 0) =>
        outcome = "ok"

\* the second run of decode.py of a sub-iteration merged a list of a
\* candidate translated by the first run and a candidate it had translated
\* itself
C27_Witness ==
    /\ src = "dev" /\ invocations = 2 /\ outcome = "ok" /\ missing = 0
    /\ Len(cacheFile) = 2
    /\ \A s \in Cands : sentSub[s] = 1 /\ nLookSub[s] >= 1


\* the values of the word penalty in a configuration file
WordPenaltyOf(f) == ExtractMosesParams(f)["WordPenalty0"]

\* C28: after a calibration, index 1 is the forward direction exactly when
\* the src2trg ratio is strictly greater than the trg2src ratio; the
\* iteration-0 file of the forward direction has the best forward penalty
\* as its word penalty and that of the other direction the best backward
\* penalty; and every iteration tunes the forward direction first
C28_ForwardDirectionConsistent ==
    (calOut # None /\ pc \notin {"start", "crashed"}) =>
        /\ fwdind = (IF ratios[1] > ratios[2] THEN 1 ELSE 0)
        /\ WordPenaltyOf(itfile[fwdind][0]) = <<Fmt4(calOut[1])>>
        /\ WordPenaltyOf(itfile[1 - fwdind][0]) = <<Fmt4(calOut[2])>>
        /\ pc \in SubIterationPcs =>
               /\ ind = (IF is_first THEN fwdind ELSE 1 - fwdind)
               /\ rind = 1 - ind

\* the second iteration tunes direction 1 first after a calibration that
\* found trg the shortest language and two different best penalties
C28_Witness ==
    /\ pc = "optimize" /\ it = 1 /\ is_first /\ ind = 1
    /\ ratios = <<2, 1>> /\ fwdind = 1
    /\ calOut = <<-3200, 0>>
    /\ WordPenaltyOf(itfile[1][0]) = <<Fmt4(-3200)>>
    /\ WordPenaltyOf(itfile[0][0]) = <<Fmt4(0)>>


\* file g has the lines of file f, token for token, but for the values of
\* the word penalty in the [weight] section, which are the single value v
SameButWordPenalty(f, g, v) ==
    /\ g.exists /\ Len(g.lines) = Len(f.lines)
    /\ \A i \in 1..Len(f.lines) :
          IF /\ Started(f.lines, i) /\ f.lines[i].toks # <<>>
             /\ DropLast(f.lines[i].toks[1]) = "WordPenalty0"
          THEN g.lines[i].toks = <<f.lines[i].toks[1], v>>
          ELSE g.lines[i].toks = f.lines[i].toks

\* C29: after a calibration the iteration-0 file of each direction has the
\* lines of the direction's input, every feature but the word penalty with
\* its values at its place and the word penalty with the best penalty of
\* the direction; without a calibration the iteration-0 files are the bytes
\* of the inputs and no calibration was run
C29_OnlyWordPenaltyChanges ==
    pc \notin {"start", "crashed"} =>
        IF ~args.supervised /\ args.length_init
        THEN /\ calOut # None
             /\ SameButWordPenalty(args.input[fwdind + 1], itfile[fwdind][0],
                                   Fmt4(calOut[1]))
             /\ SameButWordPenalty(args.input[2 - fwdind], itfile[1 - fwdind][0],
                                   Fmt4(calOut[2]))
        ELSE /\ calOut = None /\ ratios = <<None, None>>
             /\ \A d \in Dirs : itfile[d][0] = args.input[d + 1]

\* a calibration changed the word penalty of an input of two features
C29_Witness ==
    /\ pc = "entropies"
    /\ ~args.supervised /\ args.length_init
    /\ calOut = <<-3200, 0>> /\ fwdind = 0
    /\ args.input[1] = CfgGap
    /\ WordPenaltyOf(itfile[0][0]) = <<Fmt4(-3200)>>
    /\ WordPenaltyOf(args.input[1]) = <<W1>>
    /\ ExtractMosesParams(itfile[0][0])["TM0"] = <<W1, W2>>


\* C30: the steps train.py runs are steps of the range from_step..to_step,
\* in increasing order and each once; a run that ends normally has run all
\* of them; a step whose directory was there before the run is not run: the
\* run ends at its os.mkdir with FileExistsError and the directory stays
C30_StepsOfRangeInOrder ==
    /\ \A i \in 1..Len(ran) :
          /\ ran[i] \in Steps
          /\ from_step <= ran[i] /\ ran[i] <= to_step
          /\ stepdir[ran[i]] = "new"
          /\ \A j \in 1..Len(ran) : i < j => ran[i] < ran[j]
    /\ \A k \in Steps : (\E i \in 1..Len(ran) : ran[i] = k) \/ stepdir[k] # "new"
    /\ tpc = "done" =>
          \A k \in Steps :
              (from_step <= k /\ k <= to_step) => \E i \in 1..Len(ran) : ran[i] = k
    /\ (tpc = "steps" /\ step <= LastStep) =>
          \A k \in Steps :
              (from_step <= k /\ k <= to_step /\ k < step) =>
                  \E i \in 1..Len(ran) : ran[i] = k
    /\ (tpc = "crashed" /\ twhy = "FileExistsError") =>
          /\ stepdir[step] = "old"
          /\ from_step <= step /\ step <= to_step
    /\ (tpc = "crashed" /\ twhy = "Exception") =>
          (ran # <<>> /\ ran[Len(ran)] = step)

\* a run from step 8 to step 10 on the working directory of the steps 1
\* to 7 ended normally
C30_Witness ==
    /\ tpc = "done"
    /\ from_step = 8 /\ to_step = 10
    /\ ran = <<8, 9, 10>>
    /\ stepdir[7] = "old" /\ stepdir[8] = "new"

====
